---- MODULE Spec2Model ----
(***************************************************************************)
(* A model of the pgbun connection pooler: the pool manager               *)
(* (src/src/connection-pool.ts, class ConnectionPool, second definition), *)
(* the client-session handler (src/src/connection-handler.ts) and the     *)
(* wire codec (class PostgreSQLProtocol, first definition).               *)
(*                                                                         *)
(* One step of the model is one task of the JavaScript event loop: a      *)
(* socket or timer callback together with every promise continuation      *)
(* (microtask) it makes runnable.  An `await` on the creation of a new    *)
(* backend is the only place where a handler stays suspended across tasks;*)
(* such calls are kept in `pending` and resumed by createConnection.       *)
(***************************************************************************)
EXTENDS Integers, Sequences, FiniteSets, TLC

\* ---------------------------------------------------------------- bounds
\* The largest environment: client sockets ever accepted, backends the
\* server ever accepts, frames in one read, calls of getConnection suspended
\* at a time, unanswered queries on one backend, and max_client_conn.
NumSessions == 3
NumConns == 2
MaxChunk == 2
MaxPending == 2
MaxOutstanding == 2
MaxCap == 2
\* The environment of the specifications that take every action.
FewSessions == 2
FewPending == 1
FewOutstanding == 1

Sessions == 1..NumSessions
Conns == 1..NumConns
None == 0
Undefined == "undefined"

VARIABLES cfg, env, sess, conn, nConn, pools, totalConnections,
          sessionTrackedConnections, pending, wire, stopped

vars == <<cfg, env, sess, conn, nConn, pools, totalConnections,
          sessionTrackedConnections, pending, wire, stopped>>

\* ---------------------------------------------------------- configuration
PoolModes == {"session", "transaction", "statement"}
SSLModes == {"disable", "allow", "prefer", "require", "verify-ca", "verify-full"}

\* The TLS files are kept as configured (TRUE) or not configured.
Configs ==
  [poolMode : PoolModes,
   maxClientConnections : 1..MaxCap,
   serverIdleTimeout : {0, 1},
   clientLoginTimeout : {0, 1},
   clientIdleTimeout : {0, 1},
   clientTlsMode : SSLModes,
   clientTlsKeyFile : BOOLEAN,
   clientTlsCertFile : BOOLEAN,
   clientTlsCaFile : BOOLEAN]

\* The constructor of Config throws unless validate accepts the values; the
\* unit of the timeouts is one second, the least client_login_timeout that
\* validate accepts.
validate(config) ==
  /\ config.poolMode \in PoolModes
  /\ config.maxClientConnections >= 1
  /\ config.clientLoginTimeout >= 1
  /\ config.clientTlsMode \in SSLModes

\* What the world around the pooler does in one behaviour: how many clients
\* ever connect and how many are connected at a time, how many backends the
\* server accepts, how many backend creations are in progress at a time,
\* how many queries a client sends ahead of their answers, whether clients
\* follow the protocol (a Startup first, then Query frames), whether they
\* leave transactions to the server (no BEGIN, COMMIT or ROLLBACK),
\* whether the ReadyForQuery of a backend's own startup may be read after
\* its creation has completed, and whether clients send an SSLRequest.
Environments ==
  [clients : 1..NumSessions,
   concurrent : 1..NumSessions,
   backends : 1..NumConns,
   suspended : 1..MaxPending,
   pipeline : 1..MaxOutstanding,
   orderly : BOOLEAN,
   autocommit : BOOLEAN,
   late : BOOLEAN,
   tls : BOOLEAN]

\* ------------------------------------------------------------- data model
ClientSession ==
  [status |-> "absent", state |-> "new", authenticated |-> FALSE,
   currentServerConnection |-> None, inTransaction |-> FALSE,
   pendingRelease |-> FALSE, ended |-> FALSE, loginTimer |-> FALSE,
   database |-> Undefined, user |-> Undefined, idleTime |-> 0,
   out |-> <<>>, tls |-> FALSE]

\* sock is the state of the backend socket ("closed" once it has closed or
\* reported an error), owner is the session whose data, close and error
\* handlers are installed on it, and rfq counts the ReadyForQuery frames the
\* backend still owes.  `asked` is what the PostgreSQL server behind the
\* socket has to answer: for each Query written to the socket and not yet
\* answered by a ReadyForQuery, in their order, the session whose handleQuery
\* wrote it; a ReadyForQuery that rfq counts beyond them is the one of the
\* backend's own startup.
ServerConnection ==
  [database |-> Undefined, user |-> Undefined, inUse |-> FALSE,
   idleTime |-> 0, sock |-> "none", owner |-> None, rfq |-> 0,
   asked |-> <<>>]

\* `out` of a session is what the current task has written to its client
\* socket; a task starts with nothing written.
quiet(sessions) == [s \in Sessions |-> [sessions[s] EXCEPT !.out = <<>>]]

\* The mutable program state as one value, so that the steps of one task
\* can be composed in order; `cleaned` is the counter that
\* cleanupIdleConnections returns.
State ==
  [sess |-> quiet(sess), conn |-> conn, nConn |-> nConn, pools |-> pools,
   total |-> totalConnections, tracked |-> sessionTrackedConnections,
   pending |-> pending, cleaned |-> 0, stopped |-> stopped]

\* The status of a client: "absent" before its socket is accepted, "live"
\* while its session is in clientSessions, "errored" once handleClientError
\* has deleted the session and the close event of the socket is still to
\* come, "dead" once the socket has closed.
\* A session that handleClientClose has deleted from clientSessions is
\* reachable only from the closures of the handlers installed on backend
\* sockets and of suspended calls; they read its currentServerConnection,
\* inTransaction and pendingRelease.  Its other fields, and a deleted
\* session that no closure refers to, are no longer represented.
referenced(st, s) ==
  \/ \E c \in Conns : st.conn[c].owner = s /\ st.conn[c].sock = "open"
  \/ \E i \in 1..Len(st.pending) : st.pending[i].s = s

deleted(st, s) ==
  IF referenced(st, s)
  THEN [ClientSession EXCEPT
          !.status = st.sess[s].status,
          !.currentServerConnection = st.sess[s].currentServerConnection,
          !.inTransaction = st.sess[s].inTransaction,
          !.pendingRelease = st.sess[s].pendingRelease]
  ELSE [ClientSession EXCEPT !.status = st.sess[s].status]

Commit(st) ==
  /\ sess' = [s \in Sessions |->
       IF st.sess[s].status \in {"errored", "dead"} THEN deleted(st, s)
       ELSE st.sess[s]]
  /\ conn' = st.conn
  /\ nConn' = st.nConn
  /\ pools' = st.pools
  /\ totalConnections' = st.total
  /\ sessionTrackedConnections' = st.tracked
  /\ pending' = st.pending
  /\ wire' = wire
  /\ stopped' = st.stopped

\* ------------------------------------------------------------ pool manager
getPoolKey(database, user) == database \o ":" \o user

\* A pool.find that finds no idle backend.
findNothing(st, pool, i) == None

RECURSIVE find(_, _, _)
find(st, pool, i) ==
  IF i > Len(pool) THEN None
  ELSE IF ~st.conn[pool[i]].inUse THEN pool[i]
  ELSE find(st, pool, i + 1)

markInUse(st, c) ==
  [st EXCEPT !.conn[c].inUse = TRUE, !.conn[c].idleTime = 0]

\* getConnection up to its return or up to `await this.createConnection`.
getConnection(st, sessionId, database, user) ==
  LET poolKey == getPoolKey(database, user)
      sessionKey == <<sessionId, poolKey>>
      hasTracked == /\ cfg.poolMode = "session"
                    /\ sessionId # None
                    /\ sessionKey \in DOMAIN st.tracked
      tracked == st.tracked[sessionKey]
  IN IF hasTracked /\ ~st.conn[tracked].inUse
     THEN [st |-> markInUse(st, tracked), kind |-> "return", c |-> tracked]
     ELSE
       LET st1 == IF poolKey \in DOMAIN st.pools THEN st
                  ELSE [st EXCEPT !.pools = (poolKey :> <<>>) @@ st.pools]
           connection == find(st1, st1.pools[poolKey], 1)
       IN IF connection = None /\ st1.total < cfg.maxClientConnections
          THEN [st |-> st1, kind |-> "await", c |-> None]
          ELSE IF connection # None
          THEN [st |-> markInUse(st1, connection), kind |-> "return",
                c |-> connection]
          ELSE [st |-> st1, kind |-> "return", c |-> None]

\* The rest of getConnection after createConnection has settled with
\* `connection` (None when the creation failed).  `p` is the suspended call.
\* `pool` is the array that the call read from the map before the await: a
\* push on it shows in the map unless shutdown has cleared the map since.
getConnectionResume(st, p, connection) ==
  IF connection = None THEN st
  ELSE
    LET sessionKey == <<p.sessionId, p.poolKey>>
        st1 == [st EXCEPT !.pools =
                            IF p.poolKey \in DOMAIN @
                            THEN [@ EXCEPT ![p.poolKey] =
                                             Append(@, connection)]
                            ELSE @,
                          !.total = @ + 1]
        st2 == IF cfg.poolMode = "session" /\ p.sessionId # None
               THEN [st1 EXCEPT !.tracked =
                        (sessionKey :> connection) @@ st1.tracked]
               ELSE st1
    IN markInUse(st2, connection)

releaseConnection(st, connection, sessionId) ==
  IF connection = None THEN st
  ELSE
    LET st1 == [st EXCEPT !.conn[connection].inUse = FALSE,
                          !.conn[connection].idleTime = 0]
        c == st1.conn[connection]
        sessionKey == <<sessionId, getPoolKey(c.database, c.user)>>
    IN IF /\ cfg.poolMode = "session"
          /\ sessionId # None
          /\ c.database # Undefined
          /\ c.user # Undefined
          /\ sessionKey \in DOMAIN st1.tracked
          /\ st1.tracked[sessionKey] = connection
       THEN [st1 EXCEPT !.tracked =
               [k \in DOMAIN st1.tracked \ {sessionKey} |-> st1.tracked[k]]]
       ELSE st1

\* ------------------------------------------------------- client messages
\* A read from a client socket is kept as what parseClientMessage makes of
\* it: a buffer that is one Startup frame gives a single startup message; a
\* buffer that is one SSLRequest gives no message; any other buffer gives its
\* Query and Terminate frames in order.
TransactionTypes == {Undefined, "begin", "commit"}
ParamValues == {Undefined, "postgres"}

StartupMessages ==
  [type : {"startup"}, database : ParamValues, user : ParamValues]

TaggedMessages ==
  [type : {"query"}, transactionType : TransactionTypes]
    \cup {[type |-> "terminate"]}

SSLRequest == <<[type |-> "sslrequest"]>>

Chunks ==
  {<<m>> : m \in StartupMessages}
    \cup UNION {[1..n -> TaggedMessages] : n \in 1..MaxChunk}
    \cup {SSLRequest}

isSSLRequest(data) == data = SSLRequest

parseClientMessage(data) == IF isSSLRequest(data) THEN <<>> ELSE data

\* ---------------------------------------------------------- client handler
\* session.socket.write of a frame the pooler makes itself (the reply to a
\* Startup or to an SSLRequest, an ErrorResponse): `out` is the frames
\* written to a client socket that is still open, in their order.  Bytes
\* relayed from a backend are not kept.
write(st, s, frame) ==
  IF st.sess[s].status = "live" /\ ~st.sess[s].ended
  THEN [st EXCEPT !.sess[s].out = Append(@, frame)]
  ELSE st

\* session.socket.end.
end(st, s) == [st EXCEPT !.sess[s].ended = TRUE]

setupServerToClientProxy(st, s, c) ==
  [st EXCEPT !.conn[c].owner = s]

\* handleQuery from `if (message.data.transactionType)` to the write on the
\* backend socket.
forwardQuery(st, s, transactionType) ==
  LET st1 == IF transactionType = "begin" /\ cfg.poolMode = "transaction"
             THEN [st EXCEPT !.sess[s].inTransaction = TRUE]
             ELSE st
      st2 == IF /\ transactionType \in {"commit", "rollback"}
                /\ cfg.poolMode = "transaction"
             THEN [st1 EXCEPT !.sess[s].pendingRelease = TRUE]
             ELSE st1
      c == st2.sess[s].currentServerConnection
  IN IF st2.conn[c].sock = "open"
     THEN [st2 EXCEPT !.conn[c].rfq = @ + 1,
                      !.conn[c].asked = Append(@, s)]
     ELSE st2

\* handleQueryResume that ends the client socket when there is no backend.
handleQueryResumeOrEnd(st, s, transactionType, serverConnection) ==
  IF serverConnection # None
  THEN forwardQuery(
         setupServerToClientProxy(
           [st EXCEPT !.sess[s].currentServerConnection = serverConnection],
           s, serverConnection),
         s, transactionType)
  ELSE end(write(st, s, "No available connections"), s)

\* handleQuery after `await this.connectionPool.getConnection(...)`.
handleQueryResume(st, s, transactionType, serverConnection) ==
  IF serverConnection # None
  THEN forwardQuery(
         setupServerToClientProxy(
           [st EXCEPT !.sess[s].currentServerConnection = serverConnection],
           s, serverConnection),
         s, transactionType)
  ELSE write(st, s, "No available connections")

\* handleStartup from `session.authenticated = true` to the end of the try.
finishStartup(st, s) ==
  [write(write(st, s, "AuthenticationOk"), s, "ReadyForQuery")
     EXCEPT !.sess[s].authenticated = TRUE,
            !.sess[s].loginTimer = FALSE,
            !.sess[s].state = "active"]

\* handleStartup after `await this.connectionPool.getConnection(...)`.
handleStartupResume(st, s, serverConnection) ==
  IF serverConnection # None
  THEN finishStartup(
         setupServerToClientProxy(
           [st EXCEPT !.sess[s].currentServerConnection = serverConnection],
           s, serverConnection),
         s)
  ELSE end(write(st, s, "Failed to connect to database"), s)

resume(st, k) ==
  IF k.kind = "startup" THEN handleStartupResume(st, k.s, k.c)
  ELSE handleQueryResume(st, k.s, k.transactionType, k.c)

Suspended(s, kind, transactionType, sessionId, database, user) ==
  [s |-> s, kind |-> kind, transactionType |-> transactionType,
   sessionId |-> sessionId, database |-> database, user |-> user,
   poolKey |-> getPoolKey(database, user)]

\* A call of getConnection made by a handler: the call either returns at
\* once (its continuation runs as a microtask of this task, after the
\* synchronous part of the task) or stays suspended in `pending`.
acquire(st, s, kind, transactionType, sessionId, database, user) ==
  LET r == getConnection(st, sessionId, database, user)
      p == Suspended(s, kind, transactionType, sessionId, database, user)
  IN IF r.kind = "await"
     THEN [st |-> [r.st EXCEPT !.pending = Append(@, p)], conts |-> <<>>]
     ELSE [st |-> r.st,
           conts |-> <<[kind |-> kind, s |-> s,
                        transactionType |-> transactionType, c |-> r.c]>>]

\* handleStartup that answers the client without a backend in every mode.
handleStartupWithoutBackend(st, s, message) ==
  LET database == IF message.database = Undefined THEN "postgres"
                  ELSE message.database
      user == IF message.user = Undefined THEN "postgres" ELSE message.user
  IN [st |-> finishStartup(
               [st EXCEPT !.sess[s].database = database,
                          !.sess[s].user = user,
                          !.sess[s].state = "authenticating"], s),
      conts |-> <<>>]

handleStartup(st, s, message) ==
  LET database == IF message.database = Undefined THEN "postgres"
                  ELSE message.database
      user == IF message.user = Undefined THEN "postgres" ELSE message.user
      st1 == [st EXCEPT !.sess[s].database = database,
                        !.sess[s].user = user,
                        !.sess[s].state = "authenticating"]
  IN IF cfg.poolMode = "session"
     THEN acquire(st1, s, "startup", Undefined, s, database, user)
     ELSE [st |-> finishStartup(st1, s), conts |-> <<>>]

handleQuery(st, s, message) ==
  IF st.sess[s].currentServerConnection = None
  THEN IF cfg.poolMode = "transaction"
       THEN acquire(st, s, "query", message.transactionType, None,
                    st.sess[s].database, st.sess[s].user)
       ELSE [st |-> write(st, s, "No server connection"), conts |-> <<>>]
  ELSE [st |-> forwardQuery(st, s, message.transactionType), conts |-> <<>>]

processClientMessage(st, s, message) ==
  CASE message.type = "startup" -> handleStartup(st, s, message)
    [] message.type = "query" -> handleQuery(st, s, message)
    [] message.type = "terminate" ->
         [st |-> end(st, s), conts |-> <<>>]

\* The loop of processData: the synchronous part of every message, in
\* order; the continuations that are already runnable are collected.
RECURSIVE processMessages(_, _, _, _, _)
processMessages(st, s, messages, i, conts) ==
  IF i > Len(messages) THEN [st |-> st, conts |-> conts]
  ELSE LET r == processClientMessage(st, s, messages[i])
       IN processMessages(r.st, s, messages, i + 1, conts \o r.conts)

RECURSIVE runMicrotasks(_, _, _)
runMicrotasks(st, conts, i) ==
  IF i > Len(conts) THEN st
  ELSE runMicrotasks(resume(st, conts[i]), conts, i + 1)

processData(st, s, data) ==
  LET r == processMessages(st, s, parseClientMessage(data), 1, <<>>)
  IN runMicrotasks(r.st, r.conts, 1)

VerifyModes == {"verify-ca", "verify-full"}

\* handleSSLRequest without the test of the CA file.
handleSSLRequestWithoutCa(st, s, thrown) ==
  IF cfg.clientTlsMode = "disable"
  THEN end(write(st, s, "N"), s)
  ELSE IF ~(cfg.clientTlsKeyFile /\ cfg.clientTlsCertFile)
  THEN end(st, s)
  ELSE IF thrown
  THEN end(write(st, s, "S"), s)
  ELSE [write(st, s, "S") EXCEPT !.sess[s].tls = TRUE,
                                 !.sess[s].state = "authenticating"]

\* `thrown` says that socket.upgradeTLS throws.
handleSSLRequest(st, s, thrown) ==
  IF cfg.clientTlsMode = "disable"
  THEN end(write(st, s, "N"), s)
  ELSE IF ~(cfg.clientTlsKeyFile /\ cfg.clientTlsCertFile)
  THEN end(st, s)
  ELSE IF cfg.clientTlsMode \in VerifyModes /\ ~cfg.clientTlsCaFile
  THEN end(st, s)
  ELSE IF thrown
  THEN end(write(st, s, "S"), s)
  ELSE [write(st, s, "S") EXCEPT !.sess[s].tls = TRUE,
                                 !.sess[s].state = "authenticating"]

\* handleClientData without the test of client_tls_mode.
handleClientDataInPlainText(st, s, data, thrown) ==
  LET st1 == [st EXCEPT !.sess[s].idleTime = 0]
  IN IF st1.sess[s].state = "new" /\ isSSLRequest(data)
     THEN handleSSLRequest(st1, s, thrown)
     ELSE processData(st1, s, data)

handleClientData(st, s, data, thrown) ==
  LET st1 == [st EXCEPT !.sess[s].idleTime = 0]
  IN IF st1.sess[s].state = "new"
     THEN IF isSSLRequest(data)
          THEN handleSSLRequest(st1, s, thrown)
          ELSE IF cfg.clientTlsMode \in {"require"} \cup VerifyModes
          THEN end(write(st1, s, "Server requires TLS"), s)
          ELSE processData(st1, s, data)
     ELSE processData(st1, s, data)

\* ------------------------------------------------------------------ Init
\* `wire` is the bytes of one connection, for the specification of the
\* codec: the frames a peer sends and their bytes, how many of them the
\* pooler has read, its last read, whether the parser has thrown on it and
\* the messages it made of it, the messages of all reads, and what the
\* task of the last read wrote to the other peer.  For a backend that is
\* being authenticated, `authenticated` is connection.authenticated and
\* `settled` says how the promise of authenticateServerConnection was
\* settled: "resolved", or rejected on an ErrorResponse ("failed"), on an
\* error of the parser ("thrown") or by the timer ("timeout").
Wire ==
  [dir |-> "none", sent |-> <<>>, stream |-> <<>>, pos |-> 0, read |-> <<>>,
   thrown |-> FALSE, messages |-> <<>>, frames |-> <<>>, written |-> <<>>,
   authenticated |-> FALSE, settled |-> "pending"]

Init ==
  /\ cfg \in Configs
  /\ env \in Environments
  /\ sess = [s \in Sessions |-> ClientSession]
  /\ conn = [c \in Conns |-> ServerConnection]
  /\ nConn = 0
  /\ pools = <<>>
  /\ totalConnections = 0
  /\ sessionTrackedConnections = <<>>
  /\ pending = <<>>
  /\ wire = Wire
  /\ stopped = FALSE

\* The pooler runs: Config.load has returned, the server listens and
\* Server.stop has not been called (`stopped`); index.ts ends the process
\* right after Server.stop.
Running == validate(cfg) /\ ~stopped

Live(s) == sess[s].status = "live"

WithinBounds(st) ==
  /\ Len(st.pending) <= env.suspended
  /\ \A c \in Conns : st.conn[c].rfq <= env.pipeline

Orderly(s, data) ==
  IF isSSLRequest(data) THEN sess[s].state = "new"
  ELSE IF sess[s].state = "new" \/ (sess[s].tls /\ ~sess[s].authenticated)
  THEN data = <<[type |-> "startup", database |-> "postgres",
                 user |-> "postgres"]>>
  ELSE \A i \in 1..Len(data) : data[i].type = "query"

Autocommit(data) ==
  \A i \in 1..Len(data) :
    data[i].type = "query" => data[i].transactionType = Undefined

\* --------------------------------------------------------------- actions
\* Server.handleConnection -> ConnectionHandler.handleClient: a client
\* socket is accepted.  Sessions are numbered in the order of their accept.
HandleClient(s) ==
  /\ Running
  /\ s <= env.clients
  /\ Cardinality({t \in Sessions : Live(t)}) < env.concurrent
  /\ sess[s].status = "absent"
  /\ \A t \in Sessions : t < s => sess[t].status # "absent"
  /\ sess' = [quiet(sess) EXCEPT ![s] =
       [ClientSession EXCEPT
          !.status = "live",
          !.loginTimer = (cfg.clientLoginTimeout > 0)]]
  /\ UNCHANGED <<cfg, env, conn, nConn, pools, totalConnections,
                 sessionTrackedConnections, pending, wire, stopped>>

\* ConnectionHandler.handleClientData: one read from a client socket.
HandleClientData(s, data) ==
  /\ Running
  /\ Live(s)
  /\ ~sess[s].ended
  /\ env.orderly => Orderly(s, data)
  /\ env.autocommit => Autocommit(data)
  /\ isSSLRequest(data) => env.tls
  /\ \E thrown \in IF isSSLRequest(data) THEN BOOLEAN ELSE {FALSE} :
       LET st == handleClientData(State, s, data, thrown)
       IN WithinBounds(st) /\ Commit(st)
  /\ UNCHANGED <<cfg, env>>

\* handleClientClose that releases without looking the session up.
handleClientCloseUnchecked(st, s, status) ==
  LET st1 == releaseConnection(st, st.sess[s].currentServerConnection,
               IF cfg.poolMode = "session" THEN s ELSE None)
  IN [st1 EXCEPT !.sess[s].loginTimer = FALSE, !.sess[s].status = status]

\* ConnectionHandler.handleClientClose; `status` is what becomes of the
\* client socket.
handleClientClose(st, s, status) ==
  IF st.sess[s].status = "live"
  THEN LET st1 == [st EXCEPT !.sess[s].loginTimer = FALSE]
           st2 == releaseConnection(st1,
                    st1.sess[s].currentServerConnection,
                    IF cfg.poolMode = "session" THEN s ELSE None)
       IN [st2 EXCEPT !.sess[s].status = status]
  ELSE [st EXCEPT !.sess[s].status = status]

\* The close callback of a client socket.
HandleClientClose(s) ==
  /\ Running
  /\ sess[s].status \in {"live", "errored"}
  /\ Commit(handleClientClose(State, s, "dead"))
  /\ UNCHANGED <<cfg, env>>

\* The error callback of a client socket: handleClientError calls
\* handleClientClose.
HandleClientError(s) ==
  /\ Running
  /\ Live(s)
  /\ Commit(handleClientClose(State, s, "errored"))
  /\ UNCHANGED <<cfg, env>>

\* The login timer set by handleClient fires.
LoginTimeout(s) ==
  /\ Running
  /\ Live(s)
  /\ sess[s].loginTimer
  /\ LET st == [State EXCEPT !.sess[s].loginTimer = FALSE]
     IN Commit(IF ~sess[s].authenticated
               THEN end(write(st, s, "Login timeout"), s)
               ELSE st)
  /\ UNCHANGED <<cfg, env>>

RemoveAt(seq, i) == SubSeq(seq, 1, i - 1) \o SubSeq(seq, i + 1, Len(seq))

\* createConnection resolves with a new authenticated backend for the
\* suspended call pending[i]; getConnection and then the handler that
\* awaited it run on.  `late` says that the ReadyForQuery of the backend's
\* own startup has not been read yet when AuthenticationOk is handled.
CreateConnectionOk(i, late) ==
  /\ Running
  /\ i \in 1..Len(pending)
  /\ nConn < env.backends
  /\ late => env.late
  /\ LET p == pending[i]
         id == nConn + 1
         st1 == [State EXCEPT
                   !.pending = RemoveAt(@, i),
                   !.nConn = id,
                   !.conn[id] = [ServerConnection EXCEPT
                                   !.database = p.database,
                                   !.user = p.user,
                                   !.sock = "open",
                                   !.rfq = IF late THEN 1 ELSE 0]]
         st2 == getConnectionResume(st1, p, id)
         st3 == resume(st2, [kind |-> p.kind, s |-> p.s,
                             transactionType |-> p.transactionType,
                             c |-> id])
     IN WithinBounds(st3) /\ Commit(st3)
  /\ UNCHANGED <<cfg, env>>

\* createConnection catches a failure (connect, TLS, authentication or
\* timeout) and resolves with undefined.
CreateConnectionFail(i) ==
  /\ Running
  /\ i \in 1..Len(pending)
  /\ LET p == pending[i]
         st1 == [State EXCEPT !.pending = RemoveAt(@, i)]
         st2 == resume(st1, [kind |-> p.kind, s |-> p.s,
                             transactionType |-> p.transactionType,
                             c |-> None])
     IN Commit(st2)
  /\ UNCHANGED <<cfg, env>>

\* serverData with the release decided by pendingRelease alone.
serverDataOnCommitOnly(st, s) ==
  IF cfg.poolMode = "transaction"
  THEN
    LET st1 == IF st.sess[s].pendingRelease
               THEN [releaseConnection(st,
                       st.sess[s].currentServerConnection, None)
                     EXCEPT !.sess[s].currentServerConnection = None]
               ELSE st
    IN [st1 EXCEPT !.sess[s].pendingRelease = FALSE,
                   !.sess[s].inTransaction =
                     IF st.sess[s].pendingRelease THEN FALSE ELSE @]
  ELSE st

\* serverData with the release made in every pool mode.
serverDataInEveryMode(st, s) ==
  LET release == st.sess[s].pendingRelease \/ ~st.sess[s].inTransaction
      st1 == IF release
             THEN [releaseConnection(st,
                     st.sess[s].currentServerConnection, None)
                   EXCEPT !.sess[s].currentServerConnection = None]
             ELSE st
  IN IF st1.sess[s].pendingRelease
     THEN [st1 EXCEPT !.sess[s].pendingRelease = FALSE,
                      !.sess[s].inTransaction = FALSE]
     ELSE st1

\* The data handler that setupServerToClientProxy installs on a backend
\* socket, for a read that holds at least one ReadyForQuery.
serverData(st, s) ==
  IF cfg.poolMode = "transaction"
  THEN
    LET release == st.sess[s].pendingRelease \/ ~st.sess[s].inTransaction
        st1 == IF release
               THEN [releaseConnection(st,
                       st.sess[s].currentServerConnection, None)
                     EXCEPT !.sess[s].currentServerConnection = None]
               ELSE st
    IN IF st1.sess[s].pendingRelease
       THEN [st1 EXCEPT !.sess[s].pendingRelease = FALSE,
                        !.sess[s].inTransaction = FALSE]
       ELSE st1
  ELSE st

\* A read from backend socket c that holds n ReadyForQuery frames: the
\* one of the backend's startup if it is still owed, then those of the
\* oldest queries.
ServerData(c, n) ==
  /\ Running
  /\ conn[c].sock = "open"
  /\ n \in 1..conn[c].rfq
  /\ LET answered == n - (conn[c].rfq - Len(conn[c].asked))
         st1 == [State EXCEPT
                   !.conn[c].rfq = @ - n,
                   !.conn[c].asked =
                     IF answered > 0 THEN SubSeq(@, answered + 1, Len(@))
                     ELSE @]
     IN Commit(IF conn[c].owner = None THEN st1
               ELSE serverData(st1, conn[c].owner))
  /\ UNCHANGED <<cfg, env>>

\* The socket of backend c has closed or failed: nothing more is read
\* from it.
closed(st, c) ==
  [st EXCEPT !.conn[c].sock = "closed", !.conn[c].rfq = 0,
             !.conn[c].asked = <<>>]

\* The close handler that setupServerToClientProxy installs.
ServerClose(c) ==
  /\ Running
  /\ conn[c].sock \in {"open", "ending"}
  /\ LET s == conn[c].owner
         st == closed(State, c)
     IN Commit(IF s = None THEN st ELSE end(st, s))
  /\ UNCHANGED <<cfg, env>>

\* The error handler that setupServerToClientProxy installs; the socket
\* that reports an error is closed.
ServerError(c) ==
  /\ Running
  /\ conn[c].sock = "open"
  /\ LET s == conn[c].owner
         st == closed(State, c)
     IN Commit(IF s = None THEN st
               ELSE end(write(st, s, "Server connection error"), s))
  /\ UNCHANGED <<cfg, env>>

\* ConnectionPool.cleanupIdleConnections: one pool, scanned from its end.
RECURSIVE cleanupPool(_, _, _)
cleanupPool(st, poolKey, i) ==
  IF i < 1 THEN st
  ELSE
    LET c == st.pools[poolKey][i]
        idleTime == st.conn[c].idleTime
    IN IF ~st.conn[c].inUse /\ idleTime > cfg.serverIdleTimeout
       THEN cleanupPool(
              [st EXCEPT !.conn[c].sock =
                           IF @ = "open" THEN "ending" ELSE @,
                         !.pools[poolKey] = RemoveAt(@, i),
                         !.total = @ - 1,
                         !.cleaned = @ + 1],
              poolKey, i - 1)
       ELSE cleanupPool(st, poolKey, i - 1)

RECURSIVE cleanupPools(_, _)
cleanupPools(st, poolKeys) ==
  IF poolKeys = {} THEN st
  ELSE LET poolKey == CHOOSE k \in poolKeys : TRUE
       IN cleanupPools(cleanupPool(st, poolKey, Len(st.pools[poolKey])),
                       poolKeys \ {poolKey})

\* cleanupIdleConnections without the test of a disabled timeout.
cleanupIdleConnectionsAlways(st) == cleanupPools(st, DOMAIN st.pools)

cleanupIdleConnections(st) ==
  IF cfg.serverIdleTimeout <= 0 THEN st
  ELSE cleanupPools(st, DOMAIN st.pools)

\* ConnectionHandler.cleanupIdleClients.
cleanupIdleClients(st) ==
  [st EXCEPT !.sess = [s \in Sessions |->
     IF /\ st.sess[s].status = "live"
        /\ st.sess[s].idleTime > cfg.clientIdleTimeout
     THEN [st.sess[s] EXCEPT !.ended = TRUE]
     ELSE st.sess[s]]]

\* The sweep that looks for idle clients whatever client_idle_timeout is.
CleanupIdleConnectionsAlways ==
  /\ Running
  /\ Commit(cleanupIdleClients(cleanupIdleConnections(State)))
  /\ UNCHANGED <<cfg, env>>

\* The 30 s timer of ConnectionHandler: cleanupIdleConnections.
CleanupIdleConnections ==
  /\ Running
  /\ LET st1 == cleanupIdleConnections(State)
     IN Commit(IF cfg.clientIdleTimeout > 0 THEN cleanupIdleClients(st1)
               ELSE st1)
  /\ UNCHANGED <<cfg, env>>

\* The clock (new Date()) advances by one unit.  A timestamp (lastUsed,
\* lastActivity) is kept as the time passed since it was taken, which is
\* all the code reads of it, and is not counted beyond the first value that
\* exceeds the timeout it is compared with (not at all if that is disabled).
older(idleTime, timeout) ==
  IF timeout > 0 /\ idleTime <= timeout THEN idleTime + 1 ELSE idleTime

\* The time since lastUsed of a backend is counted under a disabled
\* server_idle_timeout as well.
aged(idleTime, timeout) ==
  IF idleTime <= timeout THEN idleTime + 1 ELSE idleTime

Tick ==
  /\ Running
  /\ sess' = [s \in Sessions |->
       IF sess[s].status = "live"
       THEN [quiet(sess)[s] EXCEPT
               !.idleTime = older(@, cfg.clientIdleTimeout)]
       ELSE sess[s]]
  /\ conn' = [c \in Conns |->
       IF c <= nConn
       THEN [conn[c] EXCEPT !.idleTime = aged(@, cfg.serverIdleTimeout)]
       ELSE conn[c]]
  /\ UNCHANGED <<cfg, env, nConn, pools, totalConnections,
                 sessionTrackedConnections, pending, wire, stopped>>

Next ==
  \/ \E s \in Sessions : HandleClient(s)
  \/ \E s \in Sessions, data \in Chunks : HandleClientData(s, data)
  \/ \E s \in Sessions : HandleClientClose(s)
  \/ \E s \in Sessions : HandleClientError(s)
  \/ \E s \in Sessions : LoginTimeout(s)
  \/ \E i \in 1..MaxPending + 1, late \in BOOLEAN : CreateConnectionOk(i, late)
  \/ \E i \in 1..MaxPending + 1 : CreateConnectionFail(i)
  \/ \E c \in Conns, n \in 1..MaxOutstanding + 1 : ServerData(c, n)
  \/ \E c \in Conns : ServerClose(c)
  \/ \E c \in Conns : ServerError(c)
  \/ CleanupIdleConnections
  \/ Tick

\* -------------------------------------------------------- specifications
\* Every specification starts from a set of configurations and
\* environments.  Time is counted in units of the idle timeouts.
Few(backends, orderly) ==
  [clients |-> FewSessions, concurrent |-> FewSessions,
   backends |-> backends, suspended |-> FewPending,
   pipeline |-> FewOutstanding, orderly |-> orderly, autocommit |-> FALSE,
   late |-> FALSE, tls |-> FALSE]

\* client_tls_mode = disable, the default, and no TLS file.
PlainText ==
  /\ cfg.clientTlsMode = "disable"
  /\ ~cfg.clientTlsKeyFile
  /\ ~cfg.clientTlsCertFile
  /\ ~cfg.clientTlsCaFile

Timeouts ==
  /\ cfg.serverIdleTimeout = 1
  /\ cfg.clientLoginTimeout = 1
  /\ cfg.clientIdleTimeout = 0

\* Every pool mode, with one client that sends any frame at any time.
InitSpec ==
  /\ Init
  /\ PlainText
  /\ Timeouts
  /\ cfg.maxClientConnections = MaxCap
  /\ env = [Few(NumConns, FALSE) EXCEPT !.clients = 1,
                                        !.suspended = MaxPending,
                                        !.late = TRUE]

Spec == InitSpec /\ [][Next]_vars

\* Transaction mode, with clients that follow the protocol.
InitTransaction ==
  /\ Init
  /\ PlainText
  /\ Timeouts
  /\ cfg.poolMode = "transaction"
  /\ cfg.maxClientConnections = MaxCap
  /\ env = Few(NumConns, TRUE)

SpecTransaction == InitTransaction /\ [][Next]_vars

\* Session mode, with max_client_conn below and at the number of backends
\* the server accepts.
InitSession ==
  /\ Init
  /\ PlainText
  /\ Timeouts
  /\ cfg.poolMode = "session"
  /\ env = [Few(NumConns, FALSE) EXCEPT !.suspended = MaxPending]

SpecSession == InitSession /\ [][Next]_vars

\* Transaction mode with three clients that follow the protocol and send no
\* BEGIN or COMMIT, of which at most two are connected at a time; no timer
\* fires and no backend fails.
InitRace ==
  /\ Init
  /\ PlainText
  /\ cfg.poolMode = "transaction"
  /\ cfg.maxClientConnections = MaxCap
  /\ cfg.serverIdleTimeout = 0
  /\ cfg.clientLoginTimeout = 1
  /\ cfg.clientIdleTimeout = 0
  /\ env = [clients |-> NumSessions, concurrent |-> FewSessions,
            backends |-> NumConns, suspended |-> MaxPending,
            pipeline |-> MaxOutstanding, orderly |-> TRUE,
            autocommit |-> TRUE, late |-> FALSE, tls |-> FALSE]

NextRace ==
  \/ \E s \in Sessions : HandleClient(s)
  \/ \E s \in Sessions, data \in Chunks : HandleClientData(s, data)
  \/ \E s \in Sessions : HandleClientClose(s)
  \/ \E i \in 1..MaxPending, late \in BOOLEAN : CreateConnectionOk(i, late)
  \/ \E c \in Conns, n \in 1..MaxOutstanding : ServerData(c, n)

SpecRace == InitRace /\ [][NextRace]_vars

\* The login of one client that sends any frame at any time, an SSLRequest
\* included, under every client_tls_mode, with and without the TLS files,
\* and with client_login_timeout 0 and positive.
InitLogin ==
  /\ Init
  /\ cfg.poolMode \in {"session", "transaction"}
  /\ cfg.maxClientConnections = MaxCap
  /\ cfg.serverIdleTimeout = 1
  /\ cfg.clientIdleTimeout = 0
  /\ env = [clients |-> 1, concurrent |-> 1, backends |-> 1,
            suspended |-> FewPending, pipeline |-> FewOutstanding,
            orderly |-> FALSE, autocommit |-> TRUE, late |-> FALSE,
            tls |-> TRUE]

SpecLogin == InitLogin /\ [][Next]_vars

\* Transaction mode with server_idle_timeout 0 and positive, and clients
\* that follow the protocol and send no BEGIN or COMMIT.
InitIdle ==
  /\ Init
  /\ PlainText
  /\ cfg.poolMode = "transaction"
  /\ cfg.maxClientConnections = MaxCap
  /\ cfg.clientLoginTimeout = 1
  /\ cfg.clientIdleTimeout = 0
  /\ env = [Few(NumConns, TRUE) EXCEPT !.autocommit = TRUE]

SpecIdle == InitIdle /\ [][Next]_vars

\* ------------------------------------------------------------- wire codec
\* PostgreSQLProtocol on bytes.  A Buffer is a sequence of bytes, a string a
\* sequence of code points below 2048, and offsets count from 0 as in the
\* source.  A parser gives the messages it returns, or `thrown` when a read
\* outside the buffer raises a RangeError.
\* undefined and null where a string is expected.
NoString == <<-1>>
Null == <<-2>>

\* String.fromCharCode(buffer[offset]); buffer[offset] is undefined outside
\* the buffer and its character is U+0000.
charAt(buffer, offset) ==
  IF 0 <= offset /\ offset < Len(buffer) THEN buffer[offset + 1] ELSE 0

\* Buffer.slice(start, end): an index below 0 counts from the end, and both
\* are kept within the buffer.
index(buffer, i) ==
  IF i < -Len(buffer) THEN 0
  ELSE IF i < 0 THEN Len(buffer) + i
  ELSE IF i < Len(buffer) THEN i
  ELSE Len(buffer)

slice(buffer, from, to) ==
  SubSeq(buffer, index(buffer, from) + 1, index(buffer, to))

\* The readers of Buffer throw unless inRange.
inRange(buffer, offset, n) == 0 <= offset /\ offset + n <= Len(buffer)

readUInt16BE(buffer, offset) == buffer[offset + 1] * 256 + buffer[offset + 2]

readInt16BE(buffer, offset) ==
  LET u == readUInt16BE(buffer, offset)
  IN IF u >= 32768 THEN u - 65536 ELSE u

readUInt32BE(buffer, offset) ==
  buffer[offset + 1] * 16777216 + buffer[offset + 2] * 65536
    + readUInt16BE(buffer, offset + 2)

readInt32BE(buffer, offset) ==
  LET b == buffer[offset + 1]
  IN (IF b >= 128 THEN b - 256 ELSE b) * 16777216
       + buffer[offset + 2] * 65536 + readUInt16BE(buffer, offset + 2)

writeUInt32BE(n) ==
  <<(n \div 16777216) % 256, (n \div 65536) % 256, (n \div 256) % 256,
    n % 256>>

\* Buffer.from(str, 'utf8').
RECURSIVE utf8(_)
utf8(str) ==
  IF str = <<>> THEN <<>>
  ELSE LET c == Head(str)
       IN (IF c < 128 THEN <<c>> ELSE <<192 + (c \div 64), 128 + (c % 64)>>)
            \o utf8(Tail(str))

\* buffer.toString('utf8'): a byte that starts no sequence of one or two
\* bytes is decoded as U+FFFD.
RECURSIVE toString(_)
toString(buffer) ==
  IF buffer = <<>> THEN <<>>
  ELSE LET b == Head(buffer)
       IN IF b < 128 THEN <<b>> \o toString(Tail(buffer))
          ELSE IF /\ b >= 194 /\ b < 224 /\ Len(buffer) >= 2
                  /\ buffer[2] >= 128 /\ buffer[2] < 192
          THEN <<(b - 192) * 64 + (buffer[2] - 128)>>
                 \o toString(SubSeq(buffer, 3, Len(buffer)))
          ELSE <<65533>> \o toString(Tail(buffer))

RECURSIVE endOfCString(_, _)
endOfCString(buffer, offset) ==
  IF offset < Len(buffer) /\ buffer[offset + 1] # 0
  THEN endOfCString(buffer, offset + 1)
  ELSE offset

readCString(buffer, offset) ==
  toString(slice(buffer, offset, endOfCString(buffer, offset)))

parseQuery(buffer) ==
  [type |-> "query", data |-> [query |-> readCString(buffer, 0)]]

\* The loop of parseStartupMessage; key.length and value.length count the
\* characters of the strings, not their bytes.
RECURSIVE startupParams(_, _, _)
startupParams(buffer, offset, params) ==
  IF offset < Len(buffer) - 1
  THEN LET key == readCString(buffer, offset)
           o1 == offset + Len(key) + 1
       IN IF o1 >= Len(buffer) THEN params
          ELSE LET value == readCString(buffer, o1)
               IN startupParams(buffer, o1 + Len(value) + 1,
                    IF key # <<>> THEN (key :> value) @@ params
                    ELSE params)
  ELSE params

parseStartupMessage(buffer) ==
  [type |-> "startup", data |-> startupParams(buffer, 8, <<>>)]

Thrown == [thrown |-> TRUE, messages |-> <<>>]
Parsed(messages) == [thrown |-> FALSE, messages |-> messages]

\* The loop of parseClientMessage on the bytes of one read.
RECURSIVE clientMessages(_, _, _)
clientMessages(buffer, offset, messages) ==
  IF offset >= Len(buffer) THEN Parsed(messages)
  ELSE IF /\ offset = 0 /\ Len(buffer) >= 8
          /\ readUInt32BE(buffer, 0) = Len(buffer)
          /\ readUInt32BE(buffer, 4) = 196608
  THEN Parsed(Append(messages, parseStartupMessage(buffer)))
  ELSE IF ~inRange(buffer, offset + 1, 4) THEN Thrown
  ELSE
    LET messageType == charAt(buffer, offset)
        messageLength == readUInt32BE(buffer, offset + 1)
        messageData == slice(buffer, offset + 5, offset + messageLength + 1)
    IN IF offset + messageLength + 1 > Len(buffer) THEN Parsed(messages)
       ELSE clientMessages(buffer, offset + messageLength + 1,
              IF messageType = 81
              THEN Append(messages, parseQuery(messageData))
              ELSE IF messageType = 88
              THEN Append(messages, [type |-> "terminate"])
              ELSE messages)

parseClientBuffer(buffer) == clientMessages(buffer, 0, <<>>)

\* The loop of parseErrorResponse.
RECURSIVE errorFields(_, _, _)
errorFields(buffer, offset, fields) ==
  IF offset < Len(buffer) - 1
  THEN LET fieldType == charAt(buffer, offset)
           value == readCString(buffer, offset + 1)
       IN IF fieldType = 0 THEN fields
          ELSE errorFields(buffer, offset + 1 + Len(value) + 1,
                 (fieldType :> value) @@ fields)
  ELSE fields

parseErrorResponse(buffer) ==
  LET fields == errorFields(buffer, 0, <<>>)
      field(t) == IF t \in DOMAIN fields THEN fields[t] ELSE NoString
  IN [type |-> "ErrorResponse",
      data |-> [severity |-> field(83), code |-> field(67),
                message |-> field(77), fields |-> fields]]

\* The loop of parseRowDescription.
RECURSIVE rowFields(_, _, _, _)
rowFields(buffer, offset, n, fields) ==
  IF n = 0 THEN Parsed(<<[type |-> "RowDescription",
                          data |-> [fields |-> fields]]>>)
  ELSE LET name == readCString(buffer, offset)
           o == offset + Len(name) + 1
       IN IF ~inRange(buffer, o, 18) THEN Thrown
          ELSE rowFields(buffer, o + 18, n - 1, Append(fields,
                 [name |-> name,
                  tableOid |-> readUInt32BE(buffer, o),
                  columnNumber |-> readUInt16BE(buffer, o + 4),
                  typeOid |-> readUInt32BE(buffer, o + 6),
                  typeSize |-> readInt16BE(buffer, o + 10),
                  typeModifier |-> readInt32BE(buffer, o + 12),
                  formatCode |-> readInt16BE(buffer, o + 16)]))

parseRowDescription(buffer) ==
  IF ~inRange(buffer, 0, 2) THEN Thrown
  ELSE rowFields(buffer, 2, readUInt16BE(buffer, 0), <<>>)

\* The loop of parseDataRow.
RECURSIVE dataFields(_, _, _, _)
dataFields(buffer, offset, n, fields) ==
  IF n = 0 THEN Parsed(<<[type |-> "DataRow", data |-> [fields |-> fields]]>>)
  ELSE IF ~inRange(buffer, offset, 4) THEN Thrown
  ELSE LET fieldLength == readInt32BE(buffer, offset)
       IN IF fieldLength = -1
          THEN dataFields(buffer, offset + 4, n - 1, Append(fields, Null))
          ELSE dataFields(buffer, offset + 4 + fieldLength, n - 1,
                 Append(fields, toString(
                   slice(buffer, offset + 4, offset + 4 + fieldLength))))

parseDataRow(buffer) ==
  IF ~inRange(buffer, 0, 2) THEN Thrown
  ELSE dataFields(buffer, 2, readUInt16BE(buffer, 0), <<>>)

\* One turn of the switch of parseServerMessage.
serverMessage(buffer, offset, messageType, messageData) ==
  CASE messageType = 82 ->
         IF ~inRange(buffer, offset + 5, 4) THEN Thrown
         ELSE IF readUInt32BE(buffer, offset + 5) = 0
         THEN Parsed(<<[type |-> "AuthenticationOk"]>>)
         ELSE Parsed(<<[type |-> "AuthenticationRequired",
                        data |-> [authType |->
                          readUInt32BE(buffer, offset + 5)]]>>)
    [] messageType = 69 -> Parsed(<<parseErrorResponse(messageData)>>)
    [] messageType = 90 ->
         Parsed(<<[type |-> "ReadyForQuery",
                   data |-> [status |-> <<charAt(buffer, offset + 5)>>]]>>)
    [] messageType = 84 -> parseRowDescription(messageData)
    [] messageType = 68 -> parseDataRow(messageData)
    [] messageType = 67 ->
         Parsed(<<[type |-> "CommandComplete",
                   data |-> [tag |-> readCString(messageData, 0)]]>>)
    [] OTHER -> Parsed(<<>>)

RECURSIVE serverMessages(_, _, _)
serverMessages(buffer, offset, messages) ==
  IF offset >= Len(buffer) THEN Parsed(messages)
  ELSE IF ~inRange(buffer, offset + 1, 4) THEN Thrown
  ELSE
    LET messageType == charAt(buffer, offset)
        messageLength == readUInt32BE(buffer, offset + 1)
        messageData == slice(buffer, offset + 5, offset + messageLength + 1)
        r == serverMessage(buffer, offset, messageType, messageData)
    IN IF offset + messageLength + 1 > Len(buffer) THEN Parsed(messages)
       ELSE IF r.thrown THEN Thrown
       ELSE serverMessages(buffer, offset + messageLength + 1,
              messages \o r.messages)

parseServerMessage(buffer) == serverMessages(buffer, 0, <<>>)

\* The emitters.
createAuthenticationOk == <<82>> \o writeUInt32BE(8) \o writeUInt32BE(0)

createReadyForQuery(status) == <<90>> \o writeUInt32BE(5) \o <<status[1] % 256>>

createCommandComplete(tag) ==
  LET tagBuffer == utf8(tag \o <<0>>)
  IN <<67>> \o writeUInt32BE(4 + Len(tagBuffer)) \o tagBuffer

createErrorResponse(message) ==
  LET severity == utf8(<<83, 70, 65, 84, 65, 76, 0>>)
      code == utf8(<<67, 48, 56, 48, 48, 54, 0>>)
      msg == utf8(<<77>> \o message \o <<0>>)
      totalLength == Len(severity) + Len(code) + Len(msg) + 1
  IN <<69>> \o writeUInt32BE(4 + totalLength)
       \o severity \o code \o msg \o <<0>>

\* `entries` is Object.entries(params): pairs of a key and a value.
RECURSIVE paramBuffers(_)
paramBuffers(entries) ==
  IF entries = <<>> THEN <<>>
  ELSE utf8(Head(entries)[1] \o <<0>>) \o utf8(Head(entries)[2] \o <<0>>)
         \o paramBuffers(Tail(entries))

createStartupMessage(entries) ==
  LET params == paramBuffers(entries)
      totalLength == 4 + 4 + Len(params) + 1
  IN writeUInt32BE(totalLength) \o writeUInt32BE(196608) \o params \o <<0>>

createSSLRequestMessage == writeUInt32BE(8) \o writeUInt32BE(80877103)

isSSLRequestBuffer(buffer) ==
  /\ Len(buffer) = 8
  /\ readInt32BE(buffer, 0) = 8
  /\ readInt32BE(buffer, 4) = 80877103

createQueryMessage(query) ==
  LET queryBuffer == utf8(query \o <<0>>)
  IN <<81>> \o writeUInt32BE(4 + Len(queryBuffer)) \o queryBuffer

\* ------------------------------------------------- the codec at work
\* The frames a client and a backend put on the wire, of which a stream is
\* at most MaxFrames, and the texts the emitters are given.
MaxFrames == 2
MaxText == 2
Letters == {97, 233}
Texts == UNION {[1..n -> Letters] : n \in 0..MaxText}
Keys == {<<100>>, <<117>>}

\* The Query "a", the Query "BEGIN", Terminate and Sync; ReadyForQuery 'I',
\* the CommandComplete "a", the CommandComplete "COMMIT" and the DataRow of
\* the one field "a".
ClientFrames ==
  {createQueryMessage(<<97>>), createQueryMessage(<<66, 69, 71, 73, 78>>),
   <<88>> \o writeUInt32BE(4), <<83>> \o writeUInt32BE(4)}

ServerFrames ==
  {createReadyForQuery(<<73>>), createCommandComplete(<<97>>),
   createCommandComplete(<<67, 79, 77, 77, 73, 84>>),
   <<68>> \o writeUInt32BE(11) \o <<0, 1>> \o writeUInt32BE(1) \o <<97>>}

RECURSIVE concat(_)
concat(frames) ==
  IF frames = <<>> THEN <<>> ELSE Head(frames) \o concat(Tail(frames))

\* What the emitters are called with: Object.entries of the parameters of a
\* Startup has distinct keys.
Entries ==
  {e \in UNION {[1..n -> Keys \X Texts] : n \in 0..Cardinality(Keys)} :
     \A i, j \in DOMAIN e : i # j => e[i][1] # e[j][1]}

Emitted ==
  {[type |-> "SSLRequest"], [type |-> "AuthenticationOk"]}
    \cup [type : {"startup"}, entries : Entries]
    \cup [type : {"ReadyForQuery"}, status : {<<73>>, <<84>>, <<69>>}]
    \cup [type : {"CommandComplete", "ErrorResponse", "query"}, text : Texts]

create(frame) ==
  CASE frame.type = "SSLRequest" -> createSSLRequestMessage
    [] frame.type = "startup" -> createStartupMessage(frame.entries)
    [] frame.type = "query" -> createQueryMessage(frame.text)
    [] frame.type = "AuthenticationOk" -> createAuthenticationOk
    [] frame.type = "ReadyForQuery" -> createReadyForQuery(frame.status)
    [] frame.type = "CommandComplete" -> createCommandComplete(frame.text)
    [] frame.type = "ErrorResponse" -> createErrorResponse(frame.text)

\* One client of session mode that has logged in and holds backend 1, and
\* the bytes that one of the two peers sends; or a frame for an emitter.
InitCodec ==
  /\ cfg = [poolMode |-> "session", maxClientConnections |-> MaxCap,
            serverIdleTimeout |-> 1, clientLoginTimeout |-> 1,
            clientIdleTimeout |-> 0, clientTlsMode |-> "disable",
            clientTlsKeyFile |-> FALSE, clientTlsCertFile |-> FALSE,
            clientTlsCaFile |-> FALSE]
  /\ env = [Few(1, TRUE) EXCEPT !.clients = 1, !.concurrent = 1]
  /\ sess = [s \in Sessions |->
       IF s = 1
       THEN [ClientSession EXCEPT
               !.status = "live", !.state = "active",
               !.authenticated = TRUE, !.currentServerConnection = 1,
               !.database = "postgres", !.user = "postgres"]
       ELSE ClientSession]
  /\ conn = [c \in Conns |->
       IF c = 1
       THEN [ServerConnection EXCEPT
               !.database = "postgres", !.user = "postgres",
               !.inUse = TRUE, !.sock = "open", !.owner = 1]
       ELSE ServerConnection]
  /\ nConn = 1
  /\ pools = (getPoolKey("postgres", "postgres") :> <<1>>)
  /\ totalConnections = 1
  /\ sessionTrackedConnections =
       (<<1, getPoolKey("postgres", "postgres")>> :> 1)
  /\ pending = <<>>
  /\ stopped = FALSE

  /\ \/ \E sent \in UNION {[1..n -> ClientFrames] : n \in 1..MaxFrames} :
          wire = [Wire EXCEPT !.dir = "client", !.sent = sent,
                              !.stream = concat(sent)]
     \/ \E sent \in UNION {[1..n -> ServerFrames] : n \in 1..MaxFrames} :
          wire = [Wire EXCEPT !.dir = "server", !.sent = sent,
                              !.stream = concat(sent)]
     \/ \E frame \in Emitted :
          wire = [Wire EXCEPT !.dir = "emitter", !.sent = <<frame>>]

\* What the loop of processData writes on the socket of the backend that
\* the session holds: handleQuery writes createQueryMessage of each query.
RECURSIVE forwarded(_, _)
forwarded(messages, i) ==
  IF i > Len(messages) THEN <<>>
  ELSE (IF messages[i].type = "query"
        THEN createQueryMessage(messages[i].data.query)
        ELSE <<>>) \o forwarded(messages, i + 1)

\* handleClientData reads the next n bytes of the client; the session is
\* active and holds a backend.
ClientRead(n) ==
  /\ Running
  /\ wire.dir = "client"
  /\ Live(1) /\ ~sess[1].ended
  /\ sess[1].state = "active" /\ sess[1].currentServerConnection # None
  /\ conn[sess[1].currentServerConnection].sock = "open"
  /\ wire.pos + n <= Len(wire.stream)
  /\ LET data == SubSeq(wire.stream, wire.pos + 1, wire.pos + n)
         r == parseClientBuffer(data)
     IN /\ \A i \in 1..Len(r.messages) : r.messages[i].type # "startup"
        /\ wire' = [wire EXCEPT
             !.pos = @ + n, !.read = data, !.thrown = r.thrown,
             !.messages = r.messages, !.frames = @ \o r.messages,
             !.written = forwarded(r.messages, 1)]
        /\ sess' = [quiet(sess) EXCEPT
             ![1].idleTime = 0,
             ![1].ended =
               \/ r.thrown
               \/ \E i \in 1..Len(r.messages) :
                    r.messages[i].type = "terminate"]
  /\ UNCHANGED <<cfg, env, conn, nConn, pools, totalConnections,
                 sessionTrackedConnections, pending, stopped>>

\* The data handler that setupServerToClientProxy installs reads the next
\* n bytes of the backend.
ServerRead(n) ==
  /\ Running
  /\ wire.dir = "server"
  /\ Live(1) /\ ~sess[1].ended
  /\ conn[1].sock = "open" /\ conn[1].owner = 1
  /\ wire.pos + n <= Len(wire.stream)
  /\ LET data == SubSeq(wire.stream, wire.pos + 1, wire.pos + n)
         r == parseServerMessage(data)
     IN /\ wire' = [wire EXCEPT
             !.pos = @ + n, !.read = data, !.thrown = r.thrown,
             !.messages = r.messages, !.frames = @ \o r.messages,
             !.written = IF r.thrown THEN <<>> ELSE data]
        /\ sess' = [quiet(sess) EXCEPT ![1].ended = r.thrown]
  /\ UNCHANGED <<cfg, env, conn, nConn, pools, totalConnections,
                 sessionTrackedConnections, pending, stopped>>

\* An emitter builds a frame and the parser of the side that receives it
\* reads its bytes; handleClientData asks isSSLRequest before it parses the
\* read of a client.
Emit ==
  /\ wire.dir = "emitter"
  /\ wire.stream = <<>>
  /\ LET frame == wire.sent[1]
         data == create(frame)
         r == IF frame.type \notin {"SSLRequest", "startup", "query"}
              THEN parseServerMessage(data)
              ELSE IF isSSLRequestBuffer(data)
              THEN Parsed(<<[type |-> "SSLRequest"]>>)
              ELSE parseClientBuffer(data)
     IN wire' = [wire EXCEPT
          !.stream = data, !.pos = Len(data), !.read = data,
          !.thrown = r.thrown, !.messages = r.messages,
          !.frames = r.messages]
  /\ UNCHANGED <<cfg, env, sess, conn, nConn, pools, totalConnections,
                 sessionTrackedConnections, pending, stopped>>

MaxRead == 24

NextCodec ==
  \/ \E n \in 1..MaxRead : ClientRead(n)
  \/ \E n \in 1..MaxRead : ServerRead(n)
  \/ Emit

SpecCodec == InitCodec /\ [][NextCodec]_vars

\* Transaction mode with clients that name their database and user: each
\* sends one Startup, with names that may hold a ':', and then queries; no
\* timer fires and no backend fails.
KeyChunks ==
  {<<m>> : m \in [type : {"startup"}, database : {"a", "a:a"},
                  user : {"a", "a:a"}]}
    \cup {<<[type |-> "query", transactionType |-> Undefined]>>}

InitKeys ==
  /\ Init
  /\ PlainText
  /\ Timeouts
  /\ cfg.poolMode = "transaction"
  /\ cfg.maxClientConnections = MaxCap
  /\ env = [Few(NumConns, FALSE) EXCEPT !.autocommit = TRUE]

NextKeys ==
  \/ \E s \in Sessions : HandleClient(s)
  \/ \E s \in Sessions, data \in KeyChunks :
       /\ (data[1].type = "startup") = (sess[s].state = "new")
       /\ HandleClientData(s, data)
  \/ \E s \in Sessions : HandleClientClose(s)
  \/ \E i \in 1..MaxPending, late \in BOOLEAN : CreateConnectionOk(i, late)
  \/ \E c \in Conns, n \in 1..MaxOutstanding : ServerData(c, n)

SpecKeys == InitKeys /\ [][NextKeys]_vars

\* The clock advances by one unit, and the time since lastActivity of a
\* client is counted under a disabled client_idle_timeout as well.
TickClients ==
  /\ Running
  /\ sess' = [s \in Sessions |->
       IF sess[s].status = "live"
       THEN [quiet(sess)[s] EXCEPT
               !.idleTime = aged(@, cfg.clientIdleTimeout)]
       ELSE sess[s]]
  /\ conn' = [c \in Conns |->
       IF c <= nConn
       THEN [conn[c] EXCEPT !.idleTime = aged(@, cfg.serverIdleTimeout)]
       ELSE conn[c]]
  /\ UNCHANGED <<cfg, env, nConn, pools, totalConnections,
                 sessionTrackedConnections, pending, wire, stopped>>

\* Session mode with client_idle_timeout 0 and positive, and clients that
\* follow the protocol; no backend fails.
InitClients ==
  /\ Init
  /\ PlainText
  /\ cfg.poolMode = "session"
  /\ cfg.maxClientConnections = MaxCap
  /\ cfg.serverIdleTimeout = 1
  /\ cfg.clientLoginTimeout = 1
  /\ env = [Few(NumConns, TRUE) EXCEPT !.autocommit = TRUE]

NextClients ==
  \/ \E s \in Sessions : HandleClient(s)
  \/ \E s \in Sessions, data \in Chunks : HandleClientData(s, data)
  \/ \E s \in Sessions : HandleClientClose(s)
  \/ \E i \in 1..MaxPending, late \in BOOLEAN : CreateConnectionOk(i, late)
  \/ \E c \in Conns, n \in 1..MaxOutstanding : ServerData(c, n)
  \/ CleanupIdleConnections
  \/ TickClients

SpecClients == InitClients /\ [][NextClients]_vars

\* ConnectionPool.shutdown: the socket of every backend of every pool is
\* ended, the pools are cleared and totalConnections is set to 0.
shutdown(st) ==
  [st EXCEPT
     !.conn = [c \in Conns |->
       IF /\ \E k \in DOMAIN st.pools :
               \E i \in 1..Len(st.pools[k]) : st.pools[k][i] = c
          /\ st.conn[c].sock = "open"
       THEN [st.conn[c] EXCEPT !.sock = "ending"]
       ELSE st.conn[c]],
     !.pools = <<>>,
     !.total = 0]

\* SIGINT or SIGTERM: Server.stop ends the socket of every client, the
\* handler clears its timer and shuts the pool down, and the process exits.
Shutdown ==
  /\ Running
  /\ LET st == [State EXCEPT
                  !.sess = [s \in Sessions |->
                    IF State.sess[s].status = "live"
                    THEN [State.sess[s] EXCEPT !.ended = TRUE]
                    ELSE State.sess[s]],
                  !.stopped = TRUE]
     IN Commit(shutdown(st))
  /\ UNCHANGED <<cfg, env>>

NextShutdown == Next \/ Shutdown

\* Session mode with clients that follow the protocol, and a shutdown at
\* any time.
SpecShutdown == InitClients /\ [][NextShutdown]_vars

\* Server.stop has returned to a caller that keeps the process running
\* (index.ts is the one caller that exits after it): nothing cancels a
\* getConnection that is suspended, and createConnection resolves
\* with a new authenticated backend for the suspended call pending[i].
ResumeAfterStop(i) ==
  /\ validate(cfg)
  /\ stopped
  /\ i \in 1..Len(pending)
  /\ nConn < env.backends
  /\ LET p == pending[i]
         id == nConn + 1
         st1 == [State EXCEPT
                   !.pending = RemoveAt(@, i),
                   !.nConn = id,
                   !.conn[id] = [ServerConnection EXCEPT
                                   !.database = p.database,
                                   !.user = p.user,
                                   !.sock = "open"]]
         st2 == getConnectionResume(st1, p, id)
         st3 == resume(st2, [kind |-> p.kind, s |-> p.s,
                             transactionType |-> p.transactionType,
                             c |-> id])
     IN Commit(st3)
  /\ UNCHANGED <<cfg, env>>

NextStop ==
  \/ NextShutdown
  \/ \E i \in 1..MaxPending : ResumeAfterStop(i)

\* Session mode with clients that follow the protocol, and a Server.stop at
\* any time that does not end the process.
SpecStop == InitClients /\ [][NextStop]_vars

\* ------------------------------------------- authentication of a backend
\* What a backend sends in answer to the Startup of the pooler:
\* AuthenticationOk, AuthenticationCleartextPassword (sub-code 3), the
\* ErrorResponse "a" and ReadyForQuery 'I'.
AuthFrames ==
  {createAuthenticationOk, <<82>> \o writeUInt32BE(8) \o writeUInt32BE(3),
   createErrorResponse(<<97>>), createReadyForQuery(<<73>>)}

\* The loop of the data handler of authenticateServerConnection over the
\* messages of one read; `a` is connection.authenticated and the state of
\* the promise, which the first resolve or reject settles.
RECURSIVE authenticate(_, _, _)
authenticate(a, messages, i) ==
  IF i > Len(messages) THEN a
  ELSE authenticate(
         IF messages[i].type = "AuthenticationOk"
         THEN [authenticated |-> TRUE,
               settled |-> IF a.settled = "pending" THEN "resolved"
                           ELSE a.settled]
         ELSE IF messages[i].type = "ErrorResponse"
         THEN [a EXCEPT !.settled = IF @ = "pending" THEN "failed" ELSE @]
         ELSE a,
         messages, i + 1)

\* createConnection settles for the suspended call pending[1]: with the
\* backend when authenticateServerConnection has resolved, with undefined
\* when it has rejected; getConnection and the handler that awaited it
\* run on.
created(st, settled) ==
  LET p == st.pending[1]
      k == [kind |-> p.kind, s |-> p.s,
            transactionType |-> p.transactionType, c |-> None]
      id == st.nConn + 1
      st1 == [st EXCEPT !.pending = RemoveAt(@, 1)]
      st2 == [st1 EXCEPT
                !.nConn = id,
                !.conn[id] = [ServerConnection EXCEPT
                                !.database = p.database,
                                !.user = p.user,
                                !.sock = "open"]]
  IN IF settled = "resolved"
     THEN resume(getConnectionResume(st2, p, id), [k EXCEPT !.c = id])
     ELSE resume(st1, k)

\* One client of session mode whose Startup waits for the creation of its
\* backend, and the bytes that the backend sends.
InitAuth ==
  /\ cfg = [poolMode |-> "session", maxClientConnections |-> MaxCap,
            serverIdleTimeout |-> 1, clientLoginTimeout |-> 1,
            clientIdleTimeout |-> 0, clientTlsMode |-> "disable",
            clientTlsKeyFile |-> FALSE, clientTlsCertFile |-> FALSE,
            clientTlsCaFile |-> FALSE]
  /\ env = [Few(1, TRUE) EXCEPT !.clients = 1, !.concurrent = 1]
  /\ sess = [s \in Sessions |->
       IF s = 1
       THEN [ClientSession EXCEPT
               !.status = "live", !.state = "authenticating",
               !.loginTimer = TRUE,
               !.database = "postgres", !.user = "postgres"]
       ELSE ClientSession]
  /\ conn = [c \in Conns |-> ServerConnection]
  /\ nConn = 0
  /\ pools = (getPoolKey("postgres", "postgres") :> <<>>)
  /\ totalConnections = 0
  /\ sessionTrackedConnections = <<>>
  /\ pending = <<Suspended(1, "startup", Undefined, 1, "postgres",
                           "postgres")>>
  /\ stopped = FALSE
  /\ \E sent \in UNION {[1..n -> AuthFrames] : n \in 1..MaxFrames} :
       wire = [Wire EXCEPT !.dir = "auth", !.sent = sent,
                           !.stream = concat(sent)]

\* The data handler of authenticateServerConnection reads the next n bytes
\* of the backend; AuthenticationOk replaces the handler.
AuthRead(n) ==
  /\ Running
  /\ wire.dir = "auth"
  /\ ~wire.authenticated
  /\ wire.pos + n <= Len(wire.stream)
  /\ LET data == SubSeq(wire.stream, wire.pos + 1, wire.pos + n)
         r == parseServerMessage(data)
         was == [authenticated |-> wire.authenticated,
                 settled |-> wire.settled]
         a == IF r.thrown
              THEN [was EXCEPT !.settled =
                                 IF @ = "pending" THEN "thrown" ELSE @]
              ELSE authenticate(was, r.messages, 1)
         st == IF wire.settled = "pending" /\ a.settled # "pending"
               THEN created(State, a.settled)
               ELSE State
     IN /\ wire' = [wire EXCEPT
             !.pos = @ + n, !.read = data, !.thrown = r.thrown,
             !.messages = r.messages, !.frames = @ \o r.messages,
             !.authenticated = a.authenticated, !.settled = a.settled]
        /\ sess' = st.sess
        /\ conn' = st.conn
        /\ nConn' = st.nConn
        /\ pools' = st.pools
        /\ totalConnections' = st.total
        /\ sessionTrackedConnections' = st.tracked
        /\ pending' = st.pending
  /\ UNCHANGED <<cfg, env, stopped>>

\* The timer of authenticateServerConnection fires: it rejects unless the
\* backend is authenticated; AuthenticationOk, ErrorResponse and an error of
\* the parser clear it.
AuthTimeout ==
  /\ Running
  /\ wire.dir = "auth"
  /\ wire.settled = "pending"
  /\ LET st == created(State, "timeout")
     IN /\ wire' = [wire EXCEPT !.settled = "timeout"]
        /\ sess' = st.sess
        /\ conn' = st.conn
        /\ nConn' = st.nConn
        /\ pools' = st.pools
        /\ totalConnections' = st.total
        /\ sessionTrackedConnections' = st.tracked
        /\ pending' = st.pending
  /\ UNCHANGED <<cfg, env, stopped>>

NextAuth ==
  \/ \E n \in 1..MaxRead : AuthRead(n)
  \/ AuthTimeout

SpecAuth == InitAuth /\ [][NextAuth]_vars

\* Transaction mode with clients that name their database and user, under
\* every max_client_conn up to MaxCap.
InitCap ==
  /\ Init
  /\ PlainText
  /\ Timeouts
  /\ cfg.poolMode = "transaction"
  /\ env = [Few(NumConns, FALSE) EXCEPT !.autocommit = TRUE]

SpecCap == InitCap /\ [][NextKeys]_vars

\* ---------------------------------------------------------------- claims
Pooled(c) ==
  \E k \in DOMAIN pools : \E i \in 1..Len(pools[k]) : pools[k][i] = c

Holders(c) ==
  {s \in Sessions : Live(s) /\ sess[s].currentServerConnection = c}

Holding == {s \in Sessions : Live(s) /\ sess[s].currentServerConnection # None}

\* A read with a ReadyForQuery is handled on backend c.
ReadyForQuery(c) ==
  /\ conn[c].sock = "open"
  /\ conn'[c].sock = "open"
  /\ conn'[c].rfq < conn[c].rfq

\* C1: every backend of a pool is either idle and the current backend of no
\* live session, or in use and the current backend of exactly one.
C1_IdleOrHeldByOne ==
  \A c \in Conns : Pooled(c) =>
    IF conn[c].inUse THEN Cardinality(Holders(c)) = 1 ELSE Holders(c) = {}

\* C2: totalConnections never exceeds max_client_conn.
C2_WithinCap == totalConnections <= cfg.maxClientConnections

\* C3: no backend is the current backend of two live sessions at once.
C3_NoDoubleIssue == \A c \in Conns : Cardinality(Holders(c)) <= 1

\* C4: once the socket of a backend has closed or reported an error, no step
\* marks the backend idle in its pool and no step hands it out again.
C4_FailedNeverReturned ==
  [][\A c \in Conns :
       conn[c].sock = "closed" /\ Pooled(c)'
         => conn'[c].inUse = conn[c].inUse]_vars

\* C5: a backend whose creation completes for a session that was destroyed
\* while its getConnection was suspended does not stay in use.
C5_NoBackendForDestroyed ==
  [][nConn' > nConn
       /\ sess[conn'[nConn'].owner].status \in {"errored", "dead"}
       => ~conn'[nConn'].inUse]_vars

\* C6: totalConnections is the number of idle pooled backends plus the
\* number of live sessions that hold a backend.
C6_TotalAccounting ==
  totalConnections =
    Cardinality({c \in Conns : Pooled(c) /\ ~conn[c].inUse})
      + Cardinality(Holding)

\* C7: in transaction mode, when a session observes a ReadyForQuery on the
\* backend it holds (its handler is the one installed on the backend), the
\* backend is released and the session's current backend is cleared exactly
\* when pendingRelease is set or inTransaction is false; if pendingRelease
\* was set, pendingRelease and inTransaction are false afterwards.
C7_ReleaseOnReadyForQuery ==
  [][\A s \in Sessions, c \in Conns :
       /\ cfg.poolMode = "transaction"
       /\ Live(s)
       /\ sess[s].currentServerConnection = c
       /\ conn[c].owner = s
       /\ ReadyForQuery(c)
       => /\ IF sess[s].pendingRelease \/ ~sess[s].inTransaction
             THEN ~conn'[c].inUse /\ sess'[s].currentServerConnection = None
             ELSE conn'[c].inUse = conn[c].inUse
                    /\ sess'[s].currentServerConnection = c
          /\ IF sess[s].pendingRelease
             THEN ~sess'[s].pendingRelease /\ ~sess'[s].inTransaction
             ELSE sess'[s].inTransaction = sess[s].inTransaction]_vars

\* Session s and session t have both had a ReadyForQuery on the backend
\* they held: s outside a transaction, whose backend went back to the pool,
\* and t after its BEGIN, which keeps its backend.
C7_Witness ==
  /\ cfg.poolMode = "transaction"
  /\ \E s, t \in Sessions, c, d \in Conns :
       /\ Live(s) /\ sess[s].state = "active"
       /\ sess[s].currentServerConnection = None
       /\ conn[c].owner = s /\ Pooled(c) /\ ~conn[c].inUse
       /\ conn[c].sock = "open" /\ conn[c].rfq = 0
       /\ Live(t) /\ sess[t].inTransaction /\ ~sess[t].pendingRelease
       /\ sess[t].currentServerConnection = d
       /\ conn[d].owner = t /\ conn[d].inUse /\ conn[d].rfq = 0

StartupStep(s) ==
  \/ \E m \in StartupMessages : HandleClientData(s, <<m>>)
  \/ \E i \in 1..Len(pending), late \in BOOLEAN :
       pending[i].s = s /\ CreateConnectionOk(i, late)

C10_StatementQueryAcquires ==
  [][\A s \in Sessions :
       /\ cfg.poolMode = "statement"
       /\ Live(s) /\ sess[s].state = "active"
       /\ sess[s].currentServerConnection = None
       /\ HandleClientData(s, <<[type |-> "query",
                                 transactionType |-> Undefined]>>)
       => \/ sess'[s].currentServerConnection # None
          \/ \E i \in 1..Len(pending') : pending'[i].s = s]_vars

\* client_tls_mode is require, verify-ca or verify-full.
TlsRequired == cfg.clientTlsMode \in {"require", "verify-ca", "verify-full"}

\* Session s has acquired nothing: it holds no backend, no getConnection is
\* suspended for it and no backend has its handlers.
NothingAcquired(s) ==
  /\ sess[s].currentServerConnection = None
  /\ \A i \in 1..Len(pending) : pending[i].s # s
  /\ \A c \in Conns : conn[c].owner # s

\* C11: when TLS is required and the first read of a new client is not an
\* SSLRequest, the pooler writes ErrorResponse("Server requires TLS") and
\* ends the socket, and the session stays new; a client whose socket has
\* not been upgraded is never authenticated and acquires no backend.
C11_TlsRequired ==
  [][TlsRequired =>
       \A s \in Sessions :
         /\ /\ Live(s) /\ sess[s].state = "new"
            /\ \E data \in Chunks \ {SSLRequest} : HandleClientData(s, data)
            => /\ sess'[s].out = <<"Server requires TLS">>
               /\ sess'[s].ended
               /\ sess'[s].state = "new"
         /\ Live(s)' /\ ~sess'[s].tls
            => /\ sess'[s].state = "new"
               /\ ~sess'[s].authenticated
               /\ NothingAcquired(s)']_vars

\* A client that sent a frame other than an SSLRequest first has been
\* refused under a mode that requires TLS.
C11_Witness ==
  /\ TlsRequired
  /\ \E s \in Sessions :
       /\ Live(s) /\ sess[s].state = "new" /\ sess[s].ended
       /\ sess[s].out = <<"Server requires TLS">>
       /\ NothingAcquired(s)

\* The database and the user that handleStartup takes from Startup m.
Requested(m) ==
  [database |-> IF m.database = Undefined THEN "postgres" ELSE m.database,
   user |-> IF m.user = Undefined THEN "postgres" ELSE m.user]

\* The pool is at max_client_conn and holds no idle backend for key k.
Exhausted(k) ==
  /\ totalConnections >= cfg.maxClientConnections
  /\ \A c \in Conns :
       Pooled(c) /\ conn[c].database = k.database /\ conn[c].user = k.user
         => conn[c].inUse

\* C12: in session mode the Startup of a new client that finds the pool at
\* max_client_conn with no idle backend of its key is answered with
\* ErrorResponse("Connection pool exhausted"); the socket is ended and the
\* session does not become active.
C12_PoolExhausted ==
  [][cfg.poolMode = "session" =>
       \A s \in Sessions, m \in StartupMessages :
         /\ Live(s) /\ sess[s].state = "new"
         /\ Exhausted(Requested(m))
         /\ HandleClientData(s, <<m>>)
         => /\ sess'[s].out = <<"Connection pool exhausted">>
            /\ sess'[s].ended
            /\ sess'[s].state # "active"]_vars

\* Backend c is stored for key k.
Keyed(c, k) ==
  Pooled(c) /\ conn[c].database = k.database /\ conn[c].user = k.user

\* C13: in session mode with max_client_conn = 1 and one backend, (a) the
\* Startup of a client b that finds the backend held by a changes nothing of
\* session a and of the backend, and b does not become active; (b) the
\* Startup of a new client for the key of the backend, when the backend is
\* idle, makes the client active on that backend and creates no backend.
C13_ReuseAfterClose ==
  [][cfg.poolMode = "session" /\ cfg.maxClientConnections = 1
       /\ totalConnections = 1 =>
       \A b \in Sessions, c \in Conns, m \in StartupMessages :
         /\ Live(b) /\ sess[b].state = "new"
         /\ Keyed(c, Requested(m))
         /\ HandleClientData(b, <<m>>)
         => IF conn[c].inUse
            THEN /\ \A a \in Holders(c) : quiet(sess')[a] = quiet(sess)[a]
                 /\ conn'[c] = conn[c]
                 /\ sess'[b].state # "active" /\ sess'[b].ended
                 /\ sess'[b].currentServerConnection = None
            ELSE /\ sess'[b].currentServerConnection = c
                 /\ sess'[b].state = "active"
                 /\ conn'[c].inUse
                 /\ nConn' = nConn /\ pending' = pending
                 /\ totalConnections' = 1]_vars

\* With max_client_conn = 1, client a has closed and client b is active on
\* the one backend, which was not created for b.
C13_Witness ==
  /\ cfg.poolMode = "session" /\ cfg.maxClientConnections = 1
  /\ nConn = 1 /\ totalConnections = 1
  /\ \E a, b \in Sessions, c \in Conns :
       /\ sess[a].status = "dead"
       /\ Live(b) /\ sess[b].state = "active"
       /\ sess[b].currentServerConnection = c
       /\ conn[c].inUse /\ conn[c].owner = b /\ conn[c].sock = "open"
       /\ \A k \in DOMAIN sessionTrackedConnections : k[1] # b

\* A getConnection is suspended for session s.
Awaiting(s) == \E i \in 1..Len(pending) : pending[i].s = s

\* The client of s has been told that there is no backend and s goes on as
\* an active session without one.
Refused(s) ==
  /\ sess'[s].out = <<"No available connections">>
  /\ ~sess'[s].ended
  /\ sess'[s].state = "active"
  /\ sess'[s].currentServerConnection = None
  /\ ~Awaiting(s)'

\* C14: in transaction mode a Query of an active session without a backend
\* always calls getConnection: when the pool is exhausted for the key of the
\* session, and when the creation of the backend fails while the session is
\* still without a backend, the client gets
\* ErrorResponse("No available connections"), its socket is not ended and
\* the session stays active without a backend; otherwise a backend is
\* acquired or its creation awaited.
C14_NoAvailableConnections ==
  [][cfg.poolMode = "transaction" =>
       \A s \in Sessions :
         Live(s) /\ sess[s].state = "active" /\ ~sess[s].ended =>
           /\ /\ sess[s].currentServerConnection = None
              /\ ~Awaiting(s)
              /\ \E t \in TransactionTypes :
                   HandleClientData(s, <<[type |-> "query",
                                          transactionType |-> t]>>)
              => IF Exhausted([database |-> sess[s].database,
                               user |-> sess[s].user])
                 THEN Refused(s)
                 ELSE \/ sess'[s].currentServerConnection # None
                      \/ Awaiting(s)'
           /\ /\ sess[s].currentServerConnection = None
              /\ Len(pending) = 1 /\ pending[1].s = s
              /\ CreateConnectionFail(1)
              => Refused(s)]_vars

\* An active session of transaction mode has been refused a backend that
\* its Query asked for while the pool was at max_client_conn.
C14_Witness ==
  /\ cfg.poolMode = "transaction"
  /\ totalConnections = cfg.maxClientConnections
  /\ pending = <<>>
  /\ \E s \in Sessions :
       /\ Live(s) /\ sess[s].state = "active" /\ ~sess[s].ended
       /\ sess[s].currentServerConnection = None
       /\ sess[s].out = <<"No available connections">>

\* The answer of the pooler to a Startup.
StartupReply == <<"AuthenticationOk", "ReadyForQuery">>

\* Session s is active on a backend in use that was opened for the database
\* and the user of s.
ActiveOnBackend(s) ==
  /\ sess[s].state = "active" /\ sess[s].authenticated
  /\ sess[s].currentServerConnection # None
  /\ LET c == conn[sess[s].currentServerConnection]
     IN c.inUse /\ c.database = sess[s].database /\ c.user = sess[s].user

Evicted(c) ==
  /\ cfg.serverIdleTimeout > 0
  /\ ~conn[c].inUse
  /\ conn[c].idleTime > cfg.serverIdleTimeout

\* C17: whenever cleanupIdleConnections runs, it ends the socket of a pooled
\* backend, removes it from its pool and counts it if and only if
\* server_idle_timeout > 0, the backend is not in use and the time since its
\* lastUsed exceeds server_idle_timeout; every other backend and the order
\* of every pool are unchanged, totalConnections decreases by the number of
\* backends removed and that number is returned.
C17_EvictIdle ==
  LET r == cleanupIdleConnections(State)
      gone == {c \in Conns : Pooled(c) /\ Evicted(c)}
  IN /\ DOMAIN r.pools = DOMAIN pools
     /\ \A k \in DOMAIN pools :
          r.pools[k] = SelectSeq(pools[k], LAMBDA c : c \notin gone)
     /\ \A c \in Conns :
          r.conn[c] = IF c \in gone /\ conn[c].sock = "open"
                      THEN [conn[c] EXCEPT !.sock = "ending"]
                      ELSE conn[c]
     /\ r.total = totalConnections - Cardinality(gone)
     /\ r.cleaned = Cardinality(gone)

\* A sweep has evicted one of two backends: its socket is ending and it is
\* in no pool, and the other backend is still pooled and counted.
C17_Witness ==
  /\ cfg.serverIdleTimeout > 0
  /\ totalConnections = 1
  /\ \E c, d \in Conns :
       /\ ~Pooled(c) /\ conn[c].sock = "ending"
       /\ Pooled(d) /\ conn[d].inUse

\* C18: when the socket of the backend that a live session holds closes or
\* reports an error, ErrorResponse("Server connection error") is written to
\* the client of the session and the client socket is ended.
C18_ServerConnectionError ==
  [][\A s \in Sessions, c \in Conns :
       /\ Live(s) /\ ~sess[s].ended
       /\ sess[s].currentServerConnection = c /\ conn[c].owner = s
       /\ ServerClose(c) \/ ServerError(c)
       => /\ sess'[s].out = <<"Server connection error">>
          /\ sess'[s].ended]_vars

\* The pool manager's state.
poolState == <<conn, pools, totalConnections, sessionTrackedConnections>>

\* C19: the close and the error of the client socket of a live session that
\* holds a backend destroy the session and leave the backend idle in its
\* pool; a Terminate ends the socket and leaves the release to the close;
\* the close that follows an error changes nothing in the pool manager, so
\* that it releases nothing a second time, whoever holds the backend then.
C19_ReleasedOnce ==
  [][\A s \in Sessions :
       /\ \A c \in Conns :
            /\ Live(s) /\ sess[s].currentServerConnection = c
            /\ HandleClientClose(s) \/ HandleClientError(s)
            => /\ ~Live(s)'
               /\ ~conn'[c].inUse /\ conn'[c].idleTime = 0
               /\ pools' = pools /\ totalConnections' = totalConnections
               /\ \A d \in Conns \ {c} : conn'[d] = conn[d]
       /\ \A c \in Conns :
            /\ Live(s) /\ sess[s].currentServerConnection = c
            /\ HandleClientData(s, <<[type |-> "terminate"]>>)
            => sess'[s].ended /\ Live(s)' /\ UNCHANGED poolState
       /\ sess[s].status = "errored" /\ HandleClientClose(s)
            => UNCHANGED poolState]_vars

\* The socket of client s has reported an error, which released the one
\* backend, and client t is active on that backend before the close event
\* of s has come.
C19_Witness ==
  /\ nConn = 1
  /\ \E s, t \in Sessions, c \in Conns :
       /\ sess[s].status = "errored"
       /\ Live(t) /\ sess[t].state = "active"
       /\ sess[t].currentServerConnection = c
       /\ conn[c].inUse /\ conn[c].owner = t
       /\ \A k \in DOMAIN sessionTrackedConnections : k[1] # t

\* The files that the client TLS mode needs are configured.
TlsFiles ==
  /\ cfg.clientTlsKeyFile /\ cfg.clientTlsCertFile
  /\ cfg.clientTlsMode \in VerifyModes => cfg.clientTlsCaFile

\* C20: an SSLRequest as the first read of a client is answered with 'N' and
\* the end of the socket when client_tls_mode is disable; with 'S', followed
\* by the upgrade of the socket (or by its end when the upgrade throws),
\* when the key file and the certificate file, and for verify-ca and
\* verify-full the CA file, are configured; and with the end of the socket
\* and nothing written when one of those files is missing.  No socket is
\* upgraded in any other way.
C20_SSLRequest ==
  [][\A s \in Sessions :
       /\ /\ Live(s) /\ sess[s].state = "new" /\ ~sess[s].ended
          /\ HandleClientData(s, SSLRequest)
          => IF cfg.clientTlsMode = "disable"
             THEN sess'[s].out = <<"N">> /\ sess'[s].ended /\ ~sess'[s].tls
             ELSE IF TlsFiles
             THEN /\ sess'[s].out = <<"S">>
                  /\ \/ sess'[s].tls /\ ~sess'[s].ended
                     \/ ~sess'[s].tls /\ sess'[s].ended
             ELSE sess'[s].out = <<>> /\ sess'[s].ended /\ ~sess'[s].tls
       /\ sess'[s].tls => cfg.clientTlsMode # "disable" /\ TlsFiles
       /\ (\E i \in 1..Len(sess'[s].out) : sess'[s].out[i] = "S")
            => cfg.clientTlsMode # "disable" /\ TlsFiles]_vars

\* Under verify-ca or verify-full a client has sent an SSLRequest, has been
\* answered with 'S' and its socket has been upgraded.
C20_Witness ==
  /\ cfg.clientTlsMode \in VerifyModes
  /\ \E s \in Sessions :
       Live(s) /\ sess[s].tls /\ sess[s].out = <<"S">> /\ ~sess[s].ended

\* C21: when the pooler has answered an SSLRequest with 'S' and has upgraded
\* the socket, the session is still in state New.
C21_NewAfterUpgrade ==
  [][\A s \in Sessions :
       /\ Live(s) /\ sess[s].state = "new" /\ ~sess[s].ended
       /\ HandleClientData(s, SSLRequest)
       /\ sess'[s].tls /\ sess'[s].out = <<"S">>
       => sess'[s].state = "new"]_vars

\* C22: when a session that is active and holds a backend reads a whole
\* client frame whose tag is neither Q nor X, the pooler writes the bytes of
\* that frame, unchanged, to the backend.
C22_OtherTagsForwarded ==
  [][\A n \in 1..MaxRead :
       /\ ClientRead(n)
       /\ wire'.read \in ClientFrames
       /\ wire'.read[1] \notin {81, 88}
       => wire'.written = wire'.read]_vars

\* C23: the bytes of every read from the backend that a session holds are
\* written unchanged to the client of that session, also when the parser
\* raises an error on them.
C23_BackendBytesRelayed ==
  [][\A n \in 1..MaxRead :
       ServerRead(n) => wire'.written = wire'.read]_vars

\* C24: within one session the backend receives the Query frames in the
\* order the client sent them, and the client receives the answers in that
\* order: no Query of a session is written to a backend while an earlier
\* Query of that session still waits for its backend, and the backends that
\* owe answers to one client are never more than one.
C24_QueriesInOrder ==
  [][/\ \A i \in 1..Len(pending) :
          /\ pending[i].kind = "query"
          /\ \E late \in BOOLEAN : CreateConnectionOk(i, late)
          => \A j \in 1..(i - 1) :
               ~(pending[j].s = pending[i].s /\ pending[j].kind = "query")
     /\ \A s \in Sessions, data \in Chunks :
          /\ HandleClientData(s, data)
          /\ \E c \in Conns : conn'[c].rfq > conn[c].rfq
          => \A j \in 1..Len(pending) :
               ~(pending[j].s = s /\ pending[j].kind = "query")
     /\ \A s \in Sessions :
          Cardinality({c \in Conns : /\ conn'[c].sock = "open"
                                     /\ conn'[c].rfq > 0
                                     /\ conn'[c].owner = s}) <= 1]_vars

\* C25: however the bytes of a stream are split into reads, the parser
\* raises no error on a read (an incomplete frame does not close the
\* connection), and the frames it has emitted after any number of reads are
\* those of the stream whose last byte has been read, each of them once: a
\* frame that is split across two reads is emitted after the second.
C25_SplitFrames ==
  wire.dir \in {"client", "server"} =>
    LET k == CHOOSE n \in 0..Len(wire.sent) :
               /\ Len(concat(SubSeq(wire.sent, 1, n))) <= wire.pos
               /\ n < Len(wire.sent) =>
                    Len(concat(SubSeq(wire.sent, 1, n + 1))) > wire.pos
        whole == concat(SubSeq(wire.sent, 1, k))
        expected == IF wire.dir = "client" THEN parseClientBuffer(whole)
                    ELSE parseServerMessage(whole)
    IN ~wire.thrown /\ wire.frames = expected.messages

\* C26: when a session that has consumed its Startup and is active reads
\* bytes that have the shape of a Startup frame, the startup handling does
\* not run again: nothing is answered, the session stays active with the
\* backend it has, and no backend is acquired or asked for.
C26_StartupOnce ==
  [][\A s \in Sessions, m \in StartupMessages :
       /\ Live(s) /\ sess[s].state = "active" /\ ~sess[s].ended
       /\ HandleClientData(s, <<m>>)
       => /\ sess'[s].out = <<>>
          /\ sess'[s].state = "active"
          /\ sess'[s].currentServerConnection
               = sess[s].currentServerConnection
          /\ pending' = pending
          /\ \A c \in Conns : conn'[c].inUse = conn[c].inUse]_vars

\* C27: the backend that getConnection(database, user) has given to a
\* session has the database and the user that the session asked for, also
\* when the names hold a ':', and the backends of one free list all have
\* the same database and the same user.
C27_PoolPerPair ==
  /\ \A s \in Sessions :
       Live(s) /\ sess[s].currentServerConnection # None
       => /\ conn[sess[s].currentServerConnection].database = sess[s].database
          /\ conn[sess[s].currentServerConnection].user = sess[s].user
  /\ \A k \in DOMAIN pools : \A i, j \in 1..Len(pools[k]) :
       /\ conn[pools[k][i]].database = conn[pools[k][j]].database
       /\ conn[pools[k][i]].user = conn[pools[k][j]].user

\* C28: a sweep ends the socket of a client session exactly if
\* client_idle_timeout is positive and the time since the last activity of
\* the session exceeds it; the socket of no other session is ended, and
\* with client_idle_timeout = 0 that of no session at all.
C28_IdleClients ==
  [][CleanupIdleConnections =>
       \A s \in Sessions :
         sess'[s].ended =
           \/ sess[s].ended
           \/ /\ Live(s)
              /\ cfg.clientIdleTimeout > 0
              /\ sess[s].idleTime > cfg.clientIdleTimeout]_vars

\* A sweep under a positive client_idle_timeout has ended the socket of an
\* active client that was idle for longer, and has left alone another
\* client that was not.
C28_Witness ==
  /\ cfg.clientIdleTimeout > 0
  /\ \E s, t \in Sessions :
       /\ Live(s) /\ sess[s].state = "active" /\ sess[s].ended
       /\ sess[s].idleTime > cfg.clientIdleTimeout
       /\ sess[s].currentServerConnection # None
       /\ conn[sess[s].currentServerConnection].sock = "open"
       /\ Live(t) /\ sess[t].state = "active" /\ ~sess[t].ended
       /\ sess[t].idleTime <= cfg.clientIdleTimeout

\* C29: when ConnectionPool.shutdown has run, the socket of every backend
\* that was in a pool has been ended, the pools map is empty, the map of
\* session pins is empty and totalConnections is 0.
C29_Shutdown ==
  [][Shutdown =>
       /\ \A c \in Conns : Pooled(c) => conn'[c].sock # "open"
       /\ pools' = <<>>
       /\ sessionTrackedConnections' = <<>>
       /\ totalConnections' = 0]_vars

\* C30: the bytes that an emitter builds for a frame are parsed to exactly
\* one frame, of the same type and with the same field values; for an
\* ErrorResponse the severity is FATAL, the code 08006 and the message the
\* one given.
C30_RoundTrip ==
  wire.dir = "emitter" /\ wire.stream # <<>> =>
    LET frame == wire.sent[1]
        parsed == wire.frames[1]
    IN /\ ~wire.thrown
       /\ Len(wire.frames) = 1
       /\ parsed.type = frame.type
       /\ frame.type = "startup" =>
            /\ DOMAIN parsed.data
                 = {frame.entries[i][1] : i \in DOMAIN frame.entries}
            /\ \A i \in DOMAIN frame.entries :
                 parsed.data[frame.entries[i][1]] = frame.entries[i][2]
       /\ frame.type = "query" => parsed.data.query = frame.text
       /\ frame.type = "ReadyForQuery" => parsed.data.status = frame.status
       /\ frame.type = "CommandComplete" => parsed.data.tag = frame.text
       /\ frame.type = "ErrorResponse" =>
            /\ parsed.data.severity = <<70, 65, 84, 65, 76>>
            /\ parsed.data.code = <<48, 56, 48, 48, 54>>
            /\ parsed.data.message = frame.text

\* The first token of a text, trimmed of white space and in upper case, and
\* the transaction verb it names.
RECURSIVE firstToken(_, _)
firstToken(str, token) ==
  IF str = <<>> THEN token
  ELSE IF Head(str) \in {9, 10, 11, 12, 13, 32}
  THEN IF token = <<>> THEN firstToken(Tail(str), token) ELSE token
  ELSE firstToken(Tail(str),
         Append(token, IF Head(str) \in 97..122 THEN Head(str) - 32
                       ELSE Head(str)))

verbOfQuery(str) ==
  LET token == firstToken(str, <<>>)
  IN IF token \in {<<66, 69, 71, 73, 78>>, <<83, 84, 65, 82, 84>>}
     THEN "begin"
     ELSE IF token \in {<<67, 79, 77, 77, 73, 84>>, <<69, 78, 68>>}
     THEN "commit"
     ELSE IF token \in {<<82, 79, 76, 76, 66, 65, 67, 75>>,
                        <<65, 66, 79, 82, 84>>}
     THEN "rollback"
     ELSE Undefined

verbOfTag(str) ==
  IF verbOfQuery(str) \in {"commit", "rollback"}
       /\ firstToken(str, <<>>) \notin {<<69, 78, 68>>, <<65, 66, 79, 82, 84>>}
  THEN verbOfQuery(str)
  ELSE Undefined

\* C31: every Query that parseClientMessage returns carries the
\* transactionType that the first token of its SQL names (begin for BEGIN or
\* START, commit for COMMIT or END, rollback for ROLLBACK or ABORT, in any
\* case of the letters) and none for any other token; every CommandComplete
\* that parseServerMessage returns carries commit for the tag COMMIT,
\* rollback for ROLLBACK and none for any other tag.
C31_TransactionType ==
  \A i \in 1..Len(wire.messages) :
    LET m == wire.messages[i]
        expected == IF m.type = "query" THEN verbOfQuery(m.data.query)
                    ELSE verbOfTag(m.data.tag)
    IN m.type \in {"query", "CommandComplete"} =>
         IF expected = Undefined
         THEN "transactionType" \notin DOMAIN m.data
         ELSE /\ "transactionType" \in DOMAIN m.data
              /\ m.data.transactionType = expected

\* The number of backends stored in the arrays under the given pool keys.
RECURSIVE stored(_)
stored(poolKeys) ==
  IF poolKeys = {} THEN 0
  ELSE LET poolKey == CHOOSE k \in poolKeys : TRUE
       IN Len(pools[poolKey]) + stored(poolKeys \ {poolKey})

\* C32: in every reachable state, also when shutdown or an eviction sweep
\* has run while a getConnection was suspended on the creation of a backend,
\* totalConnections is the number of backends stored in the arrays of the
\* pools map.
C32_TotalIsStored == totalConnections = stored(DOMAIN pools)

\* C33: in session mode the map of session pins maps the session id and
\* the pool key of every live session that holds a backend to that backend,
\* whether the backend was created for the session or taken idle from the
\* pool, and no entry of the map refers to an idle backend.
C33_PinnedWhileHeld ==
  /\ \A s \in Holding :
       LET sessionKey == <<s, getPoolKey(sess[s].database, sess[s].user)>>
       IN /\ sessionKey \in DOMAIN sessionTrackedConnections
          /\ sessionTrackedConnections[sessionKey]
               = sess[s].currentServerConnection
  /\ \A k \in DOMAIN sessionTrackedConnections :
       conn[sessionTrackedConnections[k]].inUse

\* The first frame that decides an authentication among the messages read.
RECURSIVE decisive(_, _)
decisive(messages, i) ==
  IF i > Len(messages) THEN "none"
  ELSE IF messages[i].type \in {"AuthenticationOk", "ErrorResponse",
                                "AuthenticationRequired"}
  THEN messages[i].type
  ELSE decisive(messages, i + 1)

\* C34: while a backend is being authenticated and neither its timer has
\* fired nor the parser has raised an error, the first AuthenticationOk,
\* ErrorResponse or Authentication frame with another sub-code that has been
\* read decides: AuthenticationOk marks the backend authenticated and
\* completes the creation, ErrorResponse fails the creation, an
\* Authentication frame with a sub-code other than 0 fails the creation and
\* the backend is never authenticated after it; as long as only
\* ReadyForQuery frames have been read nothing is decided.
C34_Authentication ==
  wire.dir = "auth" /\ wire.settled \notin {"thrown", "timeout"} =>
    LET first == decisive(wire.frames, 1)
    IN /\ first = "none" =>
            /\ wire.settled = "pending" /\ ~wire.authenticated
            /\ Len(pending) = 1
       /\ first = "AuthenticationOk" =>
            /\ wire.settled = "resolved" /\ wire.authenticated
            /\ pending = <<>> /\ sess[1].currentServerConnection = 1
       /\ first = "ErrorResponse" =>
            /\ wire.settled = "failed"
            /\ pending = <<>> /\ sess[1].currentServerConnection = None
       /\ first = "AuthenticationRequired" =>
            /\ wire.settled = "failed" /\ ~wire.authenticated
            /\ pending = <<>> /\ sess[1].currentServerConnection = None

\* C35: when the data handler of a backend relays a read to the client
\* socket of the session it was installed for, every answer in that read
\* belongs to a Query that was forwarded for that session: the answer to a
\* query of session A is never written to the socket of another session B,
\* also when A has disconnected or has released the backend before the
\* answer arrived and B has acquired the backend since.
C35_AnswersToAsker ==
  [][\A c \in Conns :
       /\ ReadyForQuery(c)
       /\ conn[c].owner # None
       /\ Live(conn[c].owner)
       /\ ~sess[conn[c].owner].ended
       => \A i \in 1..(Len(conn[c].asked) - Len(conn'[c].asked)) :
            conn[c].asked[i] = conn[c].owner]_vars

\* C36: no backend is idle in a pool while a Query that was written to its
\* socket is not yet answered by a ReadyForQuery; in particular the
\* ReadyForQuery of the backend's own startup or of an earlier query does
\* not release a backend that still has to answer a later query.
C36_IdleOwesNothing ==
  \A c \in Conns : Pooled(c) /\ ~conn[c].inUse => conn[c].asked = <<>>

\* C37: a live session has at most one backend acquired or being acquired
\* for it at a time, so that the Query frames of one read are all written to
\* one backend, and a read with a ReadyForQuery releases no other backend
\* than the one it arrived on.
C37_OneAcquire ==
  [][/\ \A s \in Sessions :
          sess'[s].status = "live" =>
            Cardinality({c \in Conns : conn'[c].inUse /\ conn'[c].owner = s})
              + Cardinality({i \in 1..Len(pending') : pending'[i].s = s})
              <= 1
     /\ \A s \in Sessions, data \in Chunks :
          HandleClientData(s, data) =>
            Cardinality({c \in Conns :
                           Len(conn'[c].asked) > Len(conn[c].asked)}) <= 1
     /\ \A c, d \in Conns :
          ReadyForQuery(c) /\ conn[d].inUse /\ ~conn'[d].inUse => d = c]_vars

\* C38: in every pool mode, a read without a Startup that is handled while
\* the session is new or authenticating issues no getConnection (none
\* stays suspended, no backend is marked in use) and writes no Query to a
\* backend.
C38_NoAcquireBeforeStartup ==
  [][\A s \in Sessions, data \in Chunks :
       /\ HandleClientData(s, data)
       /\ sess[s].state \in {"new", "authenticating"}
       /\ \A i \in 1..Len(data) : data[i].type # "startup"
       => /\ Len(pending') <= Len(pending)
          /\ \A c \in Conns :
               /\ conn'[c].inUse => conn[c].inUse
               /\ conn'[c].asked = conn[c].asked]_vars

\* C39: when the socket of a backend closes or reports an error, the client
\* sockets that are ended are those of sessions that hold that backend: the
\* close of a backend that is idle in its pool, or that a session has
\* released, ends no client.
C39_CloseEndsHolder ==
  [][\A c \in Conns :
       ServerClose(c) \/ ServerError(c) =>
         \A s \in Sessions :
           Live(s) /\ ~sess[s].ended /\ sess'[s].ended
             => sess[s].currentServerConnection = c]_vars

\* C40: a getConnection that is made while fewer than max_client_conn
\* backends are in use is not turned down: a Query is answered with
\* "No available connections" without an attempt to create a backend only
\* when max_client_conn backends are in use, whatever the number of idle
\* backends stored under other pool keys.
C40_RoomForIdleElsewhere ==
  [][\A s \in Sessions, data \in KeyChunks :
       /\ HandleClientData(s, data)
       /\ \E i \in 1..Len(sess'[s].out) :
            sess'[s].out[i] = "No available connections"
       => Cardinality({c \in Conns : conn[c].inUse})
            >= cfg.maxClientConnections]_vars

====
